---- MODULE Spec2Model ----
(***************************************************************************)
(* Verification model of project-init-tools: the installer commit swap of  *)
(* download_pulumi, the run_once memoizer, the sudo argument rewriting of  *)
(* _sudo_fix_args with its one-time warning, the stderr-carrying command   *)
(* runners, the install decision of the tool installers and the docker-ce  *)
(* upgrade retry, PackageList and the apt helpers, the apt sources list    *)
(* and keyring files, os_group_add_user, append_lines_to_file_if_missing,  *)
(* the aws and docker-compose installers and check_version_ge.             *)
(***************************************************************************)
EXTENDS Integers, Sequences, FiniteSets, TLC

(***************************************************************************)
(* Bounds of the model.                                                    *)
(***************************************************************************)
\* number of threads calling a run_once-wrapped function
NumThreads == 2
\* number of calls each thread makes to the wrapped function
MaxCalls == 2
\* number of commands run through _sudo_fix_args in one process
MaxInvocations == 3
\* longest captured stderr text, in characters
MaxStderrLen == 2
\* number of PackageList and apt operations in one run
MaxPackageOps == 3
\* calls of download_docker_compose for one directory
MaxComposeCalls == 2
\* os_group_add_user calls in one behaviour
MaxGroupCalls == 2
\* append_lines_to_file_if_missing: calls in one behaviour, lines of the file
\* at the start, lines in the list of one call
MaxAppendCalls == 2
MaxFileLines == 2
MaxGivenLines == 2
\* invocations of one installer in one behaviour
MaxInstallerCalls == 2

VARIABLES
  \* ---- download_pulumi (installer/pulumi/installer.py) ----
  bin_dir,            \* content of <dir>/bin
  backup_bin_dir,     \* content of <dir>/bin.bak
  tmp_install_dir,    \* state of <dir>/install.tmp
  tmp_bin_dir,        \* content of the staged directory inside install.tmp
  tarball_layout,     \* what the downloaded tarball holds
  success,            \* the local flag `success` of download_pulumi
  dl_pc,              \* position inside download_pulumi
  dl_raised,          \* an exception is propagating out of download_pulumi
  pre_bin,            \* content of <dir>/bin when download_pulumi was called
  injected,           \* number of failures injected so far
  commit_failed,      \* a move of the commit (bin->bak or staged->bin) failed
  restore_failed,     \* the restore move was attempted and failed
  commit_entered,     \* the commit (from the stale-backup removal on) has begun
  dl_warnings,        \* what download_pulumi has written to stderr
  pre_backup,         \* content of <dir>/bin.bak at the call
  \* ---- run_once (util.py), one wrapped function shared by the threads ----
  has_run,            \* _RunOnceState.has_run
  result,             \* _RunOnceState.result (None until stored)
  lock,               \* _RunOnceState.lock: its holder, or NoThread
  ro_pc,              \* position of each thread inside _run_once
  ro_arg,             \* the argument each thread passed to its current call
  ro_val,             \* the value func returned to the thread executing it
  ro_ret,             \* outcome of each thread's last finished call
  ro_calls,           \* number of calls each thread has started
  executions,         \* number of times the body of func was entered
  raises,             \* number of executions of func that raised
  produced,           \* values returned by executions of func, in order
  concurrent_start,   \* every thread was inside its first call at once
  \* ---- _sudo_fix_args, sudo_warn and the *_stderr_exception runners ----
  is_root,            \* running_as_root(): os.geteuid() == 0
  group_exists,       \* the OS group named by run_with_group exists
  user_in_group,      \* the user account is a member of that group
  proc_in_group,      \* the process's group list holds that group
  sw_has_run,         \* has_run of the _RunOnceState of sudo_warn
  sw_out,             \* lines sudo_warn has printed to stderr
  cr_pc,              \* "idle", "running" (child started), "exited" (call ended)
  cr_count,           \* number of commands started
  cr_call,            \* arguments of the runner call in progress
  cr_args,            \* argument list the call in progress gave subprocess.Popen
  cr_proc,            \* the last child process: its command, exit code, stderr
  cr_outcome,         \* how the last runner call ended
  elevations,         \* number of calls whose command got a sudo prefix
  first_elevated,     \* reason and command of the first such call
  \* ---- install_pulumi, install_poetry, install_gh, install_docker ----
  tool,               \* which installer is running
  force,              \* the argument force
  min_version,        \* the argument min_version (or the tool's constant)
  upgrade_version,    \* the argument upgrade_version of install_pulumi
  is_installed,       \* the tool's command is found before the run
  old_version,        \* the version the tool reports before the run
  latest_version,     \* the newest published version
  in_pc,              \* position inside the installer
  decision,           \* the branch the installer took
  in_result,          \* how the installer ended
  committed,          \* new content of the tool was put in place
  post_installed,     \* the tool's command is found after the install
  post_version,       \* the version the tool reports after the install
  reprobed,           \* the installer probed the version after the install
  pkg_outdated,       \* the tool's OS package is missing or below the minimum
  ce_attempts,        \* outcomes of the docker-ce upgrade_all calls, in order
  \* ---- PackageList and the apt helpers (os_packages.py) ----
  package_names,      \* PackageList._package_names
  package_name_set,   \* PackageList._package_name_set
  requested,          \* names the add operations were to put in the list
  os_installed,       \* the OS packages that are installed
  os_outdated,        \* the installed packages below the wanted minimum version
  metadata_stale,     \* the global _os_package_metadata_stale
  pk_op,              \* the last operation: its inputs and what it issued
  pk_ops,             \* number of operations so far
  \* ---- install_pulumi's requests (installer/pulumi/installer.py) ----
  platform_system,    \* platform.system()
  platform_machine,   \* platform.machine()
  fe_min_version,     \* install_pulumi's argument min_version
  fe_upgrade_version, \* install_pulumi's argument upgrade_version
  fe_force,           \* install_pulumi's argument force
  fe_old_version,     \* version of the installed pulumi, or NoVersion
  fe_latest,          \* the version pulumi_latest_version_url answers
  fe_has_run,         \* get_pulumi_latest_version has its result cached
  fe_pc,              \* position inside install_pulumi
  fe_events,          \* network requests and file effects so far, in order
  fe_result,          \* how install_pulumi ended
  \* ---- install_aws_cli, install_aws_sam_cli (installer/aws_*) ----
  aw_tool,            \* "aws" (install_aws_cli) or "sam" (install_aws_sam_cli)
  aw_force,           \* the installer's argument force
  aw_output,          \* what `<prog> --version` prints, or NotInPath
  aw_version,         \* the version string the probe returned
  aw_final,           \* content of ~/.local/aws-cli or ~/.local/aws-sam-cli
  aw_link,            \* content of ~/.local/bin/aws or ~/.local/bin/sam
  aw_pre_final,       \* aw_final when the installer was called
  aw_pre_link,        \* aw_link when the installer was called
  aw_tdir,            \* state of the TemporaryDirectory of install_aws_cli
  aw_pc,              \* position inside the installer
  aw_started,         \* `if need_client_install:` was entered
  aw_commit_entered,  \* the step that puts the new tool in place has begun
  aw_result,          \* how the installer ended
  \* ---- download_docker_compose (installer/docker_compose/installer.py) ----
  dc_version,         \* download_docker_compose's argument version
  dc_version_tag,     \* the local version_tag, once computed
  dc_dirname,         \* state of the directory dirname
  dc_result,          \* content of <dirname>/docker-compose
  dc_temp_file,       \* content of <dirname>/docker-compose.tmp
  dc_pc,              \* position inside download_docker_compose
  dc_outcome,         \* how the call ended
  dc_calls,           \* number of calls of download_docker_compose so far
  \* ---- check_version_ge on version strings (util.py) ----
  vo_a,               \* the version string a
  vo_b,               \* the version string b
  vo_c,               \* the version string c
  vo_ge,              \* what check_version_ge returned for each pair
  vo_pc,              \* "start", then "done" when the comparisons were made
  \* ---- apt sources list and GPG keyring files (os_packages.py) ----
  sources_file,       \* content of the apt sources list file dest_file
  keyring_file,       \* content of the GPG keyring file dest_file
  \* ---- OS groups (os_packages.py os_group_add_user) ----
  gr_mem,             \* grp: the member list gr_mem of each OS group
  gm_op,              \* what is remembered of the last os_group_add_user
  gm_calls,           \* os_group_add_user calls made so far
  \* ---- append_lines_to_file_if_missing (util.py) ----
  af_file,            \* the file at pathname: "absent" stands for none, else its characters
  af_op,              \* what is remembered of the last call
  af_calls,           \* calls made so far
  \* ---- install_docker after the client install, and repeated invocations ----
  in_calls,           \* installer invocations started so far
  docker_member,      \* the user is in gr_mem of the OS group docker
  docker_process,     \* the group list of the process holds docker
  qemu_ready,         \* QEMU packages installed and binfmt entries fixed
  fin_commands        \* sudo commands of install_docker after the client

dlVars == <<bin_dir, backup_bin_dir, tmp_install_dir, tmp_bin_dir,
            tarball_layout, success, dl_pc, dl_raised, pre_bin, injected,
            commit_failed, restore_failed, commit_entered,
            dl_warnings, pre_backup>>

roVars == <<has_run, result, lock, ro_pc, ro_arg, ro_val, ro_ret, ro_calls,
            executions, raises, produced, concurrent_start>>

crVars == <<is_root, group_exists, user_in_group, proc_in_group, sw_has_run,
            sw_out, cr_pc, cr_count, cr_call, cr_args, cr_proc, cr_outcome,
            elevations, first_elevated>>

inVars == <<tool, force, min_version, upgrade_version, is_installed,
            old_version, latest_version, in_pc, decision, in_result, committed,
            post_installed, post_version, reprobed, pkg_outdated, ce_attempts>>

pkVars == <<package_names, package_name_set, requested, os_installed,
            os_outdated, metadata_stale, pk_op, pk_ops>>

feVars == <<platform_system, platform_machine, fe_min_version,
            fe_upgrade_version, fe_force, fe_old_version, fe_latest,
            fe_has_run, fe_pc, fe_events, fe_result>>

awVars == <<aw_tool, aw_force, aw_output, aw_version, aw_final, aw_link,
            aw_pre_final, aw_pre_link, aw_tdir, aw_pc, aw_started,
            aw_commit_entered, aw_result>>

dcVars == <<dc_version, dc_version_tag, dc_dirname, dc_result, dc_temp_file,
            dc_pc, dc_outcome, dc_calls>>

voVars == <<vo_a, vo_b, vo_c, vo_ge, vo_pc>>

srVars == <<sources_file, keyring_file>>

gmVars == <<gr_mem, gm_op, gm_calls>>

afVars == <<af_file, af_op, af_calls>>

itVars == <<in_calls, docker_member, docker_process, qemu_ready,
            fin_commands>>

vars == <<dlVars, roVars, crVars, inVars, pkVars, feVars, awVars, dcVars,
          voVars, srVars, gmVars, afVars, itVars>>

\* the variables each part of the program leaves alone
notDl == <<roVars, crVars, inVars, pkVars, feVars, awVars, dcVars, voVars,
           srVars, gmVars, afVars, itVars>>
notRo == <<dlVars, crVars, inVars, pkVars, feVars, awVars, dcVars, voVars,
           srVars, gmVars, afVars, itVars>>
notCr == <<dlVars, roVars, inVars, pkVars, feVars, awVars, dcVars, voVars,
           srVars, gmVars, afVars, itVars>>
notIn == <<dlVars, roVars, crVars, pkVars, feVars, awVars, dcVars, voVars,
           srVars, gmVars, afVars, itVars>>
notPk == <<dlVars, roVars, crVars, inVars, feVars, awVars, dcVars, voVars,
           srVars, gmVars, afVars, itVars>>
notFe == <<dlVars, roVars, crVars, inVars, pkVars, awVars, dcVars, voVars,
           srVars, gmVars, afVars, itVars>>
notAw == <<dlVars, roVars, crVars, inVars, pkVars, feVars, dcVars, voVars,
           srVars, gmVars, afVars, itVars>>
notDc == <<dlVars, roVars, crVars, inVars, pkVars, feVars, awVars, voVars,
           srVars, gmVars, afVars, itVars>>
notVo == <<dlVars, roVars, crVars, inVars, pkVars, feVars, awVars, dcVars,
           srVars, gmVars, afVars, itVars>>
\* what the operations on the apt sources and the keyring leave alone
notPkSr == <<dlVars, roVars, crVars, inVars, feVars, awVars, dcVars, voVars,
             gmVars, afVars, itVars>>
notGm == <<dlVars, roVars, crVars, inVars, pkVars, feVars, awVars, dcVars,
           voVars, srVars, afVars, itVars>>
notAf == <<dlVars, roVars, crVars, inVars, pkVars, feVars, awVars, dcVars,
           voVars, srVars, gmVars, itVars>>
\* what install_docker's tail and a repeated invocation leave alone
notInTail == <<dlVars, roVars, crVars, pkVars, feVars, awVars, dcVars, voVars,
               srVars, gmVars, afVars>>

(***************************************************************************)
(* File system helpers.  A path holds "absent" or a tag naming the content *)
(* of the directory tree found there.                                      *)
(***************************************************************************)
\* os.path.exists
os_path_exists(content) == content # "absent"

\* `mv source dest` as run by unix_mv, on the pair <<source, dest>> of
\* contents.  A refused move (ok = FALSE) or a missing source leaves both
\* paths alone and raises; a move onto an existing directory puts the source
\* inside it; otherwise the move is a rename.
unix_mv(source, dest, ok) ==
  IF ~ok \/ source = "absent"
    THEN [raised |-> TRUE, source |-> source, dest |-> dest]
    ELSE IF dest = "absent"
           THEN [raised |-> FALSE, source |-> "absent", dest |-> source]
           ELSE [raised |-> FALSE, source |-> "absent", dest |-> "mixed"]

\* shutil.rmtree: the outcomes of removing a tree; a failed removal may have
\* deleted part of the tree already.
rmtree(content, ok) ==
  IF ok THEN {[raised |-> FALSE, content |-> "absent"]}
        ELSE {[raised |-> TRUE, content |-> content],
              [raised |-> TRUE, content |-> "partial"]}

(***************************************************************************)
(* download_pulumi, one action per statement that touches the file system. *)
(* Every external operation takes its outcome `ok` from the environment;   *)
(* ok = FALSE is an injected failure.                                      *)
(***************************************************************************)
Layouts == {"pulumi/bin", "pulumi", "none"}

InitDownload ==
  /\ bin_dir \in {"absent", "old"}
  /\ backup_bin_dir \in {"absent", "stale"}
  /\ tmp_install_dir \in {"absent", "stale"}
  /\ tmp_bin_dir = "absent"
  /\ tarball_layout \in Layouts
  /\ success = FALSE
  /\ dl_pc = "download"
  /\ dl_raised = FALSE
  /\ pre_bin = bin_dir
  /\ injected = 0
  /\ commit_failed = FALSE
  /\ restore_failed = FALSE
  /\ commit_entered = FALSE
  /\ dl_warnings = <<>>
  /\ pre_backup = backup_bin_dir

\* tb_path, tb_url = download_pulumi_tarball(...): outside every try block
DownloadTarball ==
  /\ dl_pc = "download"
  /\ \E ok \in BOOLEAN :
       IF ok THEN /\ dl_pc' = "rm_stale_tmp"
                  /\ UNCHANGED <<dl_raised, injected>>
             ELSE /\ dl_pc' = "done"
                  /\ dl_raised' = TRUE
                  /\ injected' = injected + 1
  /\ UNCHANGED <<bin_dir, backup_bin_dir, tmp_install_dir, tmp_bin_dir,
                 tarball_layout, success, pre_bin, commit_entered, commit_failed,
                 restore_failed>>
  /\ UNCHANGED <<dl_warnings, pre_backup>>
  /\ UNCHANGED notDl

\* if os.path.exists(tmp_install_dir): shutil.rmtree(tmp_install_dir)
\* (before the outer try: a failure here skips the final cleanup)
RemoveStaleTmp ==
  /\ dl_pc = "rm_stale_tmp"
  /\ IF os_path_exists(tmp_install_dir)
       THEN \E ok \in BOOLEAN : \E r \in rmtree(tmp_install_dir, ok) :
              /\ tmp_install_dir' = r.content
              /\ dl_raised' = r.raised
              /\ dl_pc' = IF r.raised THEN "done" ELSE "mkdir"
              /\ injected' = IF ok THEN injected ELSE injected + 1
       ELSE /\ dl_pc' = "mkdir"
            /\ UNCHANGED <<tmp_install_dir, dl_raised, injected>>
  /\ UNCHANGED <<bin_dir, backup_bin_dir, tmp_bin_dir, tarball_layout,
                 success, pre_bin, commit_entered, commit_failed, restore_failed>>
  /\ UNCHANGED <<dl_warnings, pre_backup>>
  /\ UNCHANGED notDl

\* if not os.path.exists(tmp_install_dir): mkdir_p(tmp_install_dir)
MakeTmp ==
  /\ dl_pc = "mkdir"
  /\ IF ~os_path_exists(tmp_install_dir)
       THEN \E ok \in BOOLEAN :
              IF ok THEN /\ tmp_install_dir' = "empty"
                         /\ dl_pc' = "extract"
                         /\ UNCHANGED <<dl_raised, injected>>
                    ELSE /\ dl_pc' = "cleanup"
                         /\ dl_raised' = TRUE
                         /\ injected' = injected + 1
                         /\ UNCHANGED tmp_install_dir
       ELSE /\ dl_pc' = "extract"
            /\ UNCHANGED <<tmp_install_dir, dl_raised, injected>>
  /\ UNCHANGED <<bin_dir, backup_bin_dir, tmp_bin_dir, tarball_layout,
                 success, pre_bin, commit_entered, commit_failed, restore_failed>>
  /\ UNCHANGED <<dl_warnings, pre_backup>>
  /\ UNCHANGED notDl

\* extract_tarball(tb_path, tmp_install_dir)
ExtractTarball ==
  /\ dl_pc = "extract"
  /\ \E ok \in BOOLEAN :
       IF ok THEN /\ tmp_install_dir' = "extracted"
                  /\ tmp_bin_dir' = IF tarball_layout = "none" THEN "absent"
                                                              ELSE "new"
                  /\ dl_pc' = "locate"
                  /\ UNCHANGED <<dl_raised, injected>>
             ELSE /\ tmp_install_dir' = "partial"
                  /\ dl_pc' = "cleanup"
                  /\ dl_raised' = TRUE
                  /\ injected' = injected + 1
                  /\ UNCHANGED tmp_bin_dir
  /\ UNCHANGED <<bin_dir, backup_bin_dir, tarball_layout, success, pre_bin, commit_entered,
                 commit_failed, restore_failed>>
  /\ UNCHANGED <<dl_warnings, pre_backup>>
  /\ UNCHANGED notDl

\* tmp_bin_dir = <tmp>/pulumi/bin, else <tmp>/pulumi, else RuntimeError
LocateStaged ==
  /\ dl_pc = "locate"
  /\ IF tarball_layout \in {"pulumi/bin", "pulumi"}
       THEN /\ dl_pc' = "rm_stale_bak"
            /\ UNCHANGED dl_raised
       ELSE /\ dl_pc' = "cleanup"
            /\ dl_raised' = TRUE
  /\ UNCHANGED <<bin_dir, backup_bin_dir, tmp_install_dir, tmp_bin_dir,
                 tarball_layout, success, pre_bin, commit_entered, injected, commit_failed,
                 restore_failed>>
  /\ UNCHANGED <<dl_warnings, pre_backup>>
  /\ UNCHANGED notDl

\* a variant of RemoveStaleBackup that leaves an existing bin.bak where it is
RemoveStaleBackupSkipped ==
  /\ dl_pc = "rm_stale_bak"
  /\ dl_pc' = "mv_bin_bak"
  /\ commit_entered' = TRUE
  /\ UNCHANGED <<bin_dir, backup_bin_dir, dl_raised, injected,
                 tmp_install_dir, tmp_bin_dir, tarball_layout, success,
                 pre_bin, commit_failed, restore_failed>>
  /\ UNCHANGED <<dl_warnings, pre_backup>>
  /\ UNCHANGED notDl

\* if os.path.exists(backup_bin_dir): shutil.rmtree(backup_bin_dir)
\* (inside the outer try, before the inner try: a failure skips the restore)
RemoveStaleBackup ==
  /\ dl_pc = "rm_stale_bak"
  /\ IF os_path_exists(backup_bin_dir)
       THEN \E ok \in BOOLEAN : \E r \in rmtree(backup_bin_dir, ok) :
              /\ backup_bin_dir' = r.content
              /\ dl_raised' = r.raised
              /\ dl_pc' = IF r.raised THEN "cleanup" ELSE "mv_bin_bak"
              /\ injected' = IF ok THEN injected ELSE injected + 1
       ELSE /\ dl_pc' = "mv_bin_bak"
            /\ UNCHANGED <<backup_bin_dir, dl_raised, injected>>
  /\ commit_entered' = TRUE
  /\ UNCHANGED <<bin_dir, tmp_install_dir, tmp_bin_dir, tarball_layout,
                 success, pre_bin, commit_failed, restore_failed>>
  /\ UNCHANGED <<dl_warnings, pre_backup>>
  /\ UNCHANGED notDl

\* if os.path.exists(bin_dir): unix_mv(bin_dir, backup_bin_dir)
MoveBinAside ==
  /\ dl_pc = "mv_bin_bak"
  /\ IF os_path_exists(bin_dir)
       THEN \E ok \in BOOLEAN :
              LET r == unix_mv(bin_dir, backup_bin_dir, ok) IN
              /\ bin_dir' = r.source
              /\ backup_bin_dir' = r.dest
              /\ dl_raised' = r.raised
              /\ commit_failed' = r.raised
              /\ dl_pc' = IF r.raised THEN "restore" ELSE "mv_new"
              /\ injected' = IF ok THEN injected ELSE injected + 1
       ELSE /\ dl_pc' = "mv_new"
            /\ UNCHANGED <<bin_dir, backup_bin_dir, dl_raised, commit_failed,
                           injected>>
  /\ UNCHANGED <<tmp_install_dir, tmp_bin_dir, tarball_layout, success,
                 pre_bin, commit_entered, restore_failed>>
  /\ UNCHANGED <<dl_warnings, pre_backup>>
  /\ UNCHANGED notDl

\* the flag set one statement too early: success = True; unix_mv(...)
MoveNewSuccessFirst ==
  /\ dl_pc = "mv_new"
  /\ \E ok \in BOOLEAN :
       LET r == unix_mv(tmp_bin_dir, bin_dir, ok) IN
       /\ tmp_bin_dir' = r.source
       /\ bin_dir' = r.dest
       /\ dl_raised' = r.raised
       /\ commit_failed' = r.raised
       /\ success' = TRUE
       /\ dl_pc' = IF r.raised THEN "cleanup" ELSE "rm_bak"
       /\ injected' = IF ok THEN injected ELSE injected + 1
  /\ UNCHANGED <<backup_bin_dir, tmp_install_dir, tarball_layout, pre_bin,
                 commit_entered, restore_failed>>
  /\ UNCHANGED <<dl_warnings, pre_backup>>
  /\ UNCHANGED notDl

\* unix_mv(tmp_bin_dir, bin_dir); success = True
MoveNewIntoPlace ==
  /\ dl_pc = "mv_new"
  /\ \E ok \in BOOLEAN :
       LET r == unix_mv(tmp_bin_dir, bin_dir, ok) IN
       /\ tmp_bin_dir' = r.source
       /\ bin_dir' = r.dest
       /\ dl_raised' = r.raised
       /\ commit_failed' = r.raised
       /\ success' = ~r.raised
       /\ dl_pc' = IF r.raised THEN "restore" ELSE "rm_bak"
       /\ injected' = IF ok THEN injected ELSE injected + 1
  /\ UNCHANGED <<backup_bin_dir, tmp_install_dir, tarball_layout, pre_bin, commit_entered,
                 restore_failed>>
  /\ UNCHANGED <<dl_warnings, pre_backup>>
  /\ UNCHANGED notDl

\* if os.path.exists(backup_bin_dir): shutil.rmtree(backup_bin_dir)
\* (success is already True: a failure here raises without a restore)
RemoveBackup ==
  /\ dl_pc = "rm_bak"
  /\ IF os_path_exists(backup_bin_dir)
       THEN \E ok \in BOOLEAN : \E r \in rmtree(backup_bin_dir, ok) :
              /\ backup_bin_dir' = r.content
              /\ dl_raised' = r.raised
              /\ injected' = IF ok THEN injected ELSE injected + 1
       ELSE UNCHANGED <<backup_bin_dir, dl_raised, injected>>
  /\ dl_pc' = "cleanup"
  /\ UNCHANGED <<bin_dir, tmp_install_dir, tmp_bin_dir, tarball_layout,
                 success, pre_bin, commit_entered, commit_failed, restore_failed>>
  /\ UNCHANGED <<dl_warnings, pre_backup>>
  /\ UNCHANGED notDl

\* finally: if not success: try: unix_mv(backup_bin_dir, bin_dir)
\*                           except Exception: pass
\* The original exception keeps propagating whatever the restore does.
\* `except Exception: pass` writes nothing: dl_warnings stays as it is.
RestoreNever ==
  /\ dl_pc = "restore"
  /\ ~success
  /\ dl_pc' = "cleanup"
  /\ UNCHANGED <<bin_dir, backup_bin_dir, restore_failed, injected,
                 tmp_install_dir, tmp_bin_dir, tarball_layout, success,
                 dl_raised, pre_bin, commit_entered, commit_failed>>
  /\ UNCHANGED <<dl_warnings, pre_backup>>
  /\ UNCHANGED notDl

RestoreBackup ==
  /\ dl_pc = "restore"
  /\ ~success
  /\ \E ok \in BOOLEAN :
       LET r == unix_mv(backup_bin_dir, bin_dir, ok) IN
       /\ backup_bin_dir' = r.source
       /\ bin_dir' = r.dest
       /\ restore_failed' = r.raised
       /\ injected' = IF ~ok /\ os_path_exists(backup_bin_dir)
                        THEN injected + 1 ELSE injected
  /\ dl_pc' = "cleanup"
  /\ UNCHANGED <<tmp_install_dir, tmp_bin_dir, tarball_layout, success,
                 dl_raised, pre_bin, commit_entered, commit_failed>>
  /\ UNCHANGED <<dl_warnings, pre_backup>>
  /\ UNCHANGED notDl

\* finally: if os.path.exists(tmp_install_dir):
\*            try: shutil.rmtree(tmp_install_dir) except Exception: pass
CleanupTmp ==
  /\ dl_pc = "cleanup"
  /\ IF os_path_exists(tmp_install_dir)
       THEN \E ok \in BOOLEAN : \E r \in rmtree(tmp_install_dir, ok) :
              /\ tmp_install_dir' = r.content
              /\ tmp_bin_dir' = IF ok THEN "absent" ELSE tmp_bin_dir
              /\ injected' = IF ok THEN injected ELSE injected + 1
       ELSE UNCHANGED <<tmp_install_dir, tmp_bin_dir, injected>>
  /\ dl_pc' = "done"
  /\ UNCHANGED <<bin_dir, backup_bin_dir, tarball_layout, success, dl_raised,
                 pre_bin, commit_entered, commit_failed, restore_failed>>
  /\ UNCHANGED <<dl_warnings, pre_backup>>
  /\ UNCHANGED notDl

NextDownload ==
  \/ DownloadTarball
  \/ RemoveStaleTmp
  \/ MakeTmp
  \/ ExtractTarball
  \/ LocateStaged
  \/ RemoveStaleBackup
  \/ MoveBinAside
  \/ MoveNewIntoPlace
  \/ RemoveBackup
  \/ RestoreBackup
  \/ CleanupTmp

(***************************************************************************)
(* Properties of the commit of download_pulumi.                            *)
(***************************************************************************)
\* download_pulumi has returned or raised after its commit began
CommitReturned == dl_pc = "done" /\ commit_entered

\* C1 as stated: with at most one injected failure, after the routine
\* returns or raises <dir>/bin exists and holds the complete pre-call content
\* or the complete newly staged content.
C1_BinExistsOldOrNew ==
  (CommitReturned /\ injected <= 1) => bin_dir \in {"old", "new"}

\* C1 as amended: with at most one injected failure, after the routine
\* returns or raises <dir>/bin is either exactly as it was before the call
\* (the complete pre-call content, or still absent when it was absent) or
\* the complete newly staged content; never partial or mixed.
C1_BinPreOrNew ==
  (CommitReturned /\ injected <= 1) => bin_dir \in {pre_bin, "new"}

\* a move of the commit failed, the restore ran, and bin is the old content
C1_Witness ==
  /\ CommitReturned
  /\ injected = 1
  /\ commit_failed
  /\ pre_bin = "old"
  /\ bin_dir = "old"
  /\ backup_bin_dir = "absent"

\* C2: after the commit returns, at most one of bin and bin.bak holds the
\* newly staged content, and a bin that existed before the call is missing
\* at return only if the restore move was attempted and failed.
C2_OneNewAndBinKept ==
  CommitReturned =>
    /\ ~(bin_dir = "new" /\ backup_bin_dir = "new")
    /\ (pre_bin = "old" /\ ~os_path_exists(bin_dir)) => restore_failed

\* the staged move failed after bin was moved aside and the restore failed:
\* bin is missing and the old content sits in bin.bak
C2_Witness ==
  /\ CommitReturned
  /\ pre_bin = "old"
  /\ commit_failed
  /\ restore_failed
  /\ ~os_path_exists(bin_dir)
  /\ backup_bin_dir = "old"

\* C22: when a move of the commit fails, the error the caller gets is the
\* error of that move, and when the restore of bin.bak fails as well, that
\* failure is written out as a warning.
C22_RestoreFailureIsLogged ==
  (CommitReturned /\ commit_failed) =>
    /\ dl_raised
    /\ restore_failed => dl_warnings # <<>>

\* C22 witness: a move of the commit failed, the restore failed too, the
\* caller gets the exception, and nothing was written about the restore.
C22_Witness ==
  /\ CommitReturned
  /\ commit_failed
  /\ restore_failed
  /\ dl_raised
  /\ dl_warnings = <<>>

\* What holds in place of C22: after a failed move of the commit the
\* exception propagates, whether the restore worked or failed.
C22_OriginalErrorKept ==
  (CommitReturned /\ commit_failed) => dl_raised

\* what is at <dir>/bin holds nothing of a bin.bak that was there before:
\* it is absent, the content that was in bin, or the staged content
NothingStaleInBin == bin_dir \in {"absent", "old", "new"}

\* C23: a bin.bak that exists when the commit starts is removed before bin
\* is moved aside, and whatever happens later, a restore included, its
\* content never ends up at bin.
C23_StaleBackupNeverRestored ==
  /\ [](pre_backup # "absent" => NothingStaleInBin)
  /\ [][(pre_backup # "absent" /\ bin_dir' # bin_dir)
          => backup_bin_dir \in {"absent", "old"}]_vars

\* C23 witness: a stale bin.bak was there, the staged move failed after bin
\* was moved aside, and the restore put the content of bin back.
C23_Witness ==
  /\ CommitReturned
  /\ pre_backup = "stale"
  /\ pre_bin = "old"
  /\ commit_failed
  /\ ~restore_failed
  /\ bin_dir = "old"
  /\ backup_bin_dir = "absent"

(***************************************************************************)
(* run_once: _run_once as executed by several threads, one action per      *)
(* statement.  Reads and writes of the state object are atomic one by one. *)
(***************************************************************************)
Threads == 1..NumThreads
NoThread == 0
\* Python's None
None == "None"
\* outcome of a call that has not finished / that ended in an exception
Pending == "pending"
Raised == "raised"
\* arguments a caller may pass
FuncArgs == {"a", "b"}
\* the wrapped function: its return value depends on its argument
func(arg) == IF arg = "a" THEN "func(a)" ELSE "func(b)"

InitRunOnce ==
  /\ has_run = FALSE
  /\ result = None
  /\ lock = NoThread
  /\ ro_pc = [t \in Threads |-> "idle"]
  /\ ro_arg = [t \in Threads |-> None]
  /\ ro_val = [t \in Threads |-> None]
  /\ ro_ret = [t \in Threads |-> Pending]
  /\ ro_calls = [t \in Threads |-> 0]
  /\ executions = 0
  /\ raises = 0
  /\ produced = <<>>
  /\ concurrent_start = FALSE

\* a thread calls the decorated function
CallRunOnce(t) ==
  /\ ro_pc[t] = "idle"
  /\ ro_calls[t] < MaxCalls
  /\ \E a \in FuncArgs : ro_arg' = [ro_arg EXCEPT ![t] = a]
  /\ ro_calls' = [ro_calls EXCEPT ![t] = @ + 1]
  /\ ro_ret' = [ro_ret EXCEPT ![t] = Pending]
  /\ ro_pc' = [ro_pc EXCEPT ![t] = "check1"]
  /\ concurrent_start' =
       (concurrent_start \/ \A u \in Threads : ro_calls'[u] = 1 /\ ro_pc'[u] # "idle")
  /\ UNCHANGED <<has_run, result, lock, ro_val, executions, raises, produced>>
  /\ UNCHANGED notRo

\* if not state.has_run:
FirstCheck(t) ==
  /\ ro_pc[t] = "check1"
  /\ ro_pc' = [ro_pc EXCEPT ![t] = IF ~has_run THEN "acquire" ELSE "return"]
  /\ UNCHANGED <<has_run, result, lock, ro_arg, ro_val, ro_ret, ro_calls,
                 executions, raises, produced, concurrent_start>>
  /\ UNCHANGED notRo

\* with state.lock:  (blocks while another thread holds the lock)
AcquireLock(t) ==
  /\ ro_pc[t] = "acquire"
  /\ lock = NoThread
  /\ lock' = t
  /\ ro_pc' = [ro_pc EXCEPT ![t] = "check2"]
  /\ UNCHANGED <<has_run, result, ro_arg, ro_val, ro_ret, ro_calls,
                 executions, raises, produced, concurrent_start>>
  /\ UNCHANGED notRo

\* the second check left out: every thread that got the lock calls func
SecondCheckMissing(t) ==
  /\ ro_pc[t] = "check2"
  /\ ro_pc' = [ro_pc EXCEPT ![t] = "call"]
  /\ UNCHANGED <<has_run, result, lock, ro_arg, ro_val, ro_ret, ro_calls,
                 executions, raises, produced, concurrent_start>>
  /\ UNCHANGED notRo

\* if not state.has_run:   (under the lock)
SecondCheck(t) ==
  /\ ro_pc[t] = "check2"
  /\ ro_pc' = [ro_pc EXCEPT ![t] = IF ~has_run THEN "call" ELSE "release"]
  /\ UNCHANGED <<has_run, result, lock, ro_arg, ro_val, ro_ret, ro_calls,
                 executions, raises, produced, concurrent_start>>
  /\ UNCHANGED notRo

\* func(*args, **kwargs) is entered
EnterFunc(t) ==
  /\ ro_pc[t] = "call"
  /\ executions' = executions + 1
  /\ ro_pc' = [ro_pc EXCEPT ![t] = "in_func"]
  /\ UNCHANGED <<has_run, result, lock, ro_arg, ro_val, ro_ret, ro_calls,
                 raises, produced, concurrent_start>>
  /\ UNCHANGED notRo

\* func returns its value
FuncReturns(t) ==
  /\ ro_pc[t] = "in_func"
  /\ ro_val' = [ro_val EXCEPT ![t] = func(ro_arg[t])]
  /\ produced' = Append(produced, func(ro_arg[t]))
  /\ ro_pc' = [ro_pc EXCEPT ![t] = "store_result"]
  /\ UNCHANGED <<has_run, result, lock, ro_arg, ro_ret, ro_calls, executions,
                 raises, concurrent_start>>
  /\ UNCHANGED notRo

\* a variant of FuncRaises that marks the function as run although it raised
FuncRaisesMarksRun(t) ==
  /\ ro_pc[t] = "in_func"
  /\ raises' = raises + 1
  /\ lock' = NoThread
  /\ has_run' = TRUE
  /\ ro_ret' = [ro_ret EXCEPT ![t] = Raised]
  /\ ro_pc' = [ro_pc EXCEPT ![t] = "idle"]
  /\ UNCHANGED <<result, ro_arg, ro_val, ro_calls, executions, produced,
                 concurrent_start>>
  /\ UNCHANGED notRo

\* func raises: the exception leaves the with block, which releases the
\* lock, and propagates to the caller; nothing is stored
FuncRaises(t) ==
  /\ ro_pc[t] = "in_func"
  /\ raises' = raises + 1
  /\ lock' = NoThread
  /\ ro_ret' = [ro_ret EXCEPT ![t] = Raised]
  /\ ro_pc' = [ro_pc EXCEPT ![t] = "idle"]
  /\ UNCHANGED <<has_run, result, ro_arg, ro_val, ro_calls, executions,
                 produced, concurrent_start>>
  /\ UNCHANGED notRo

\* state.result = <value of func>
StoreResult(t) ==
  /\ ro_pc[t] = "store_result"
  /\ result' = ro_val[t]
  /\ ro_pc' = [ro_pc EXCEPT ![t] = "store_has_run"]
  /\ UNCHANGED <<has_run, lock, ro_arg, ro_val, ro_ret, ro_calls, executions,
                 raises, produced, concurrent_start>>
  /\ UNCHANGED notRo

\* state.has_run = True
StoreHasRun(t) ==
  /\ ro_pc[t] = "store_has_run"
  /\ has_run' = TRUE
  /\ ro_pc' = [ro_pc EXCEPT ![t] = "release"]
  /\ UNCHANGED <<result, lock, ro_arg, ro_val, ro_ret, ro_calls, executions,
                 raises, produced, concurrent_start>>
  /\ UNCHANGED notRo

\* end of the with block
ReleaseLock(t) ==
  /\ ro_pc[t] = "release"
  /\ lock' = NoThread
  /\ ro_pc' = [ro_pc EXCEPT ![t] = "return"]
  /\ UNCHANGED <<has_run, result, ro_arg, ro_val, ro_ret, ro_calls,
                 executions, raises, produced, concurrent_start>>
  /\ UNCHANGED notRo

\* return state.result
ReturnResult(t) ==
  /\ ro_pc[t] = "return"
  /\ ro_ret' = [ro_ret EXCEPT ![t] = result]
  /\ ro_pc' = [ro_pc EXCEPT ![t] = "idle"]
  /\ UNCHANGED <<has_run, result, lock, ro_arg, ro_val, ro_calls, executions,
                 raises, produced, concurrent_start>>
  /\ UNCHANGED notRo

NextRunOnce ==
  \/ \E t \in Threads : CallRunOnce(t)
  \/ \E t \in Threads : FirstCheck(t)
  \/ \E t \in Threads : AcquireLock(t)
  \/ \E t \in Threads : SecondCheck(t)
  \/ \E t \in Threads : EnterFunc(t)
  \/ \E t \in Threads : FuncReturns(t)
  \/ \E t \in Threads : FuncRaises(t)
  \/ \E t \in Threads : StoreResult(t)
  \/ \E t \in Threads : StoreHasRun(t)
  \/ \E t \in Threads : ReleaseLock(t)
  \/ \E t \in Threads : ReturnResult(t)

(***************************************************************************)
(* Properties of run_once.                                                 *)
(***************************************************************************)
\* the outcome of a finished call is a value (not an exception)
ReturnedValue(t) == ro_ret[t] \notin {Pending, Raised}

RaisesNow(t) == ro_pc[t] = "in_func" /\ ro_ret'[t] = Raised

CurrentUser == "alice"
\* the group a caller may name in run_with_group
Group == "docker"
\* commands callers pass: argument lists, and one bare string
Commands ==
  { [is_list |-> TRUE,  words |-> <<"docker", "ps">>],
    [is_list |-> FALSE, words |-> <<"ls -l">>] }
\* reasons callers give for needing sudo
Reasons == {None, "installing packages", "updating keyring"}

\* running_as_root()
running_as_root == is_root

\* should_run_with_group(group_name, require=False): never raises
should_run_with_group_not_required(group_name) ==
  [raised |-> FALSE, value |-> ~proc_in_group /\ user_in_group]

\* should_run_with_group(group_name) with require = True: raises unless the
\* user is a member of the group (which a missing group never has)
should_run_with_group(group_name) ==
  IF ~(group_exists /\ user_in_group)
    THEN [raised |-> TRUE, value |-> FALSE]
    ELSE [raised |-> FALSE, value |-> ~proc_in_group]

\* the body of sudo_warn: the line it prints
sudo_warn(args, sudo_reason) ==
  IF sudo_reason = None
    THEN <<"Sudo required: command:">> \o args
    ELSE <<"Sudo required:", sudo_reason>>

\* sudo_warn without its @run_once decorator: prints on every call
sudo_warn_every_time(state, args, sudo_reason) ==
  [has_run |-> TRUE, out |-> Append(state.out, sudo_warn(args, sudo_reason))]

\* the @run_once wrapper of sudo_warn, called from a single thread: the body
\* runs only while has_run is false
sudo_warn_once(state, args, sudo_reason) ==
  IF ~state.has_run
    THEN [has_run |-> TRUE,
          out |-> Append(state.out, sudo_warn(args, sudo_reason))]
    ELSE state

\* the group test applied only when sudo was asked for
sudo_fix_args_group_with_sudo(cmd, shell, use_sudo, run_with_group) ==
  IF shell /\ cmd.is_list
    THEN [raised |-> "RuntimeError", args |-> <<>>, plain |-> <<>>,
          elevated |-> FALSE]
    ELSE
      LET args == IF shell THEN <<"bash", "-c">> \o cmd.words ELSE cmd.words
          grp == IF run_with_group = None
                   THEN [raised |-> FALSE, value |-> FALSE]
                   ELSE should_run_with_group(run_with_group)
          need_group == use_sudo /\ grp.value
      IN IF grp.raised
           THEN [raised |-> "ProjectInitError", args |-> <<>>,
                 plain |-> args, elevated |-> FALSE]
           ELSE IF need_group \/ (use_sudo /\ ~running_as_root)
             THEN [raised |-> None,
                   args |-> <<"sudo">>
                            \o (IF need_group
                                  THEN <<"-E", "-u", CurrentUser>> ELSE <<>>)
                            \o args,
                   plain |-> args, elevated |-> TRUE]
             ELSE [raised |-> None, args |-> args, plain |-> args,
                   elevated |-> FALSE]

\* _sudo_fix_args: the argument list to execute (args), the list before any
\* prefix (plain, what sudo_warn is given) and whether a prefix was added
sudo_fix_args(cmd, shell, use_sudo, run_with_group) ==
  IF shell /\ cmd.is_list
    THEN [raised |-> "RuntimeError", args |-> <<>>, plain |-> <<>>,
          elevated |-> FALSE]
    ELSE
      LET args == IF shell THEN <<"bash", "-c">> \o cmd.words ELSE cmd.words
          grp == IF run_with_group = None
                   THEN [raised |-> FALSE, value |-> FALSE]
                   ELSE should_run_with_group(run_with_group)
          need_group == grp.value
      IN IF grp.raised
           THEN [raised |-> "ProjectInitError", args |-> <<>>,
                 plain |-> args, elevated |-> FALSE]
           ELSE IF need_group \/ (use_sudo /\ ~running_as_root)
             THEN [raised |-> None,
                   args |-> <<"sudo">>
                            \o (IF need_group
                                  THEN <<"-E", "-u", CurrentUser>> ELSE <<>>)
                            \o args,
                   plain |-> args, elevated |-> TRUE]
             ELSE [raised |-> None, args |-> args, plain |-> args,
                   elevated |-> FALSE]

(***************************************************************************)
(* sudo_check_output_stderr_exception / sudo_check_call_stderr_exception.  *)
(* Text is a sequence of characters; the child's stderr is a sequence of   *)
(* bytes, one of which is not valid in the encoding.                       *)
(***************************************************************************)
Whitespace == {" ", "\n"}
BadByte == "<ff>"
Bytes == {"e", " ", BadByte}
RECURSIVE SeqsUpTo(_, _)
SeqsUpTo(S, n) ==
  IF n = 0 THEN {<<>>}
  ELSE LET shorter == SeqsUpTo(S, n - 1)
       IN shorter \cup {Append(q, x) : q \in shorter, x \in S}
\* what a child process may write to stderr
StderrTexts == SeqsUpTo(Bytes, MaxStderrLen)
\* exit codes of a child: success, failure, killed by a signal
ExitCodes == {0, 1, -9}
Runners == {"check_output", "check_call"}

\* bytes.decode(encoding): fails on a byte the encoding does not have
decode(bytes) ==
  IF \E i \in 1..Len(bytes) : bytes[i] = BadByte
    THEN [raised |-> TRUE, text |-> <<>>]
    ELSE [raised |-> FALSE, text |-> bytes]

\* str.strip, which also drops leading whitespace
RECURSIVE strip(_)
strip(text) ==
  IF text = <<>> THEN <<>>
  ELSE IF text[Len(text)] \in Whitespace
    THEN strip(SubSeq(text, 1, Len(text) - 1))
    ELSE IF text[1] \in Whitespace
      THEN strip(SubSeq(text, 2, Len(text)))
      ELSE text

\* str.rstrip: drops trailing whitespace only
RECURSIVE rstrip(_)
rstrip(text) ==
  IF text = <<>> THEN <<>>
  ELSE IF text[Len(text)] \in Whitespace
    THEN rstrip(SubSeq(text, 1, Len(text) - 1))
    ELSE text

\* CalledProcessError.__str__ of the standard library
CalledProcessError_str(returncode, cmd) ==
  IF returncode < 0
    THEN <<"Command">> \o cmd \o <<"died with signal", ToString(-returncode)>>
    ELSE <<"Command">> \o cmd
         \o <<"returned non-zero exit status", ToString(returncode)>>

\* CalledProcessErrorWithStderrMessage.__str__
CalledProcessErrorWithStderrMessage_str(returncode, cmd, stderr) ==
  CalledProcessError_str(returncode, cmd) \o <<":", "[">> \o stderr \o <<"]">>

NoCall == [fn |-> None]
NoOutcome == [kind |-> None]
NoProcess == [cmd |-> <<>>, exit_code |-> 0, stderr |-> <<>>]

InitRunner ==
  /\ is_root \in BOOLEAN
  /\ group_exists \in BOOLEAN
  /\ user_in_group \in {b \in BOOLEAN : b => group_exists}
  /\ proc_in_group \in {b \in BOOLEAN : b => group_exists}
  /\ sw_has_run = FALSE
  /\ sw_out = <<>>
  /\ cr_pc = "idle"
  /\ cr_count = 0
  /\ cr_call = NoCall
  /\ cr_args = <<>>
  /\ cr_proc = NoProcess
  /\ cr_outcome = NoOutcome
  /\ elevations = 0
  /\ first_elevated = NoCall

\* a runner is called: args = _sudo_fix_args(...), then subprocess.Popen
StartCommand ==
  /\ cr_pc = "idle"
  /\ cr_count < MaxInvocations
  /\ \E fn \in Runners, cmd \in Commands, shell \in BOOLEAN,
        use_sudo \in BOOLEAN, run_with_group \in {None, Group},
        sudo_reason \in Reasons :
       LET call == [fn |-> fn, cmd |-> cmd, shell |-> shell,
                    use_sudo |-> use_sudo, run_with_group |-> run_with_group,
                    sudo_reason |-> sudo_reason]
           fixed == sudo_fix_args(cmd, shell, use_sudo, run_with_group)
           warned == IF fixed.elevated
                       THEN sudo_warn_once(
                              [has_run |-> sw_has_run, out |-> sw_out],
                              fixed.plain, sudo_reason)
                       ELSE [has_run |-> sw_has_run, out |-> sw_out]
       IN /\ cr_call' = call
          /\ cr_args' = fixed.args
          /\ sw_has_run' = warned.has_run
          /\ sw_out' = warned.out
          /\ elevations' = IF fixed.elevated THEN elevations + 1
                                             ELSE elevations
          /\ first_elevated' = IF fixed.elevated /\ elevations = 0
                                 THEN [sudo_reason |-> sudo_reason,
                                       args |-> fixed.plain]
                                 ELSE first_elevated
          /\ IF fixed.raised # None
               THEN /\ cr_outcome' = [kind |-> fixed.raised]
                    /\ cr_pc' = "exited"
               ELSE /\ cr_outcome' = NoOutcome
                    /\ cr_pc' = "running"
  /\ cr_count' = cr_count + 1
  /\ UNCHANGED <<is_root, group_exists, user_in_group, proc_in_group, cr_proc>>
  /\ UNCHANGED notCr

\* proc.communicate() returns: the exit code decides between the return
\* value and CalledProcessErrorWithStderrMessage
CommandExits ==
  /\ cr_pc = "running"
  /\ \E exit_code \in ExitCodes, stderr_bytes \in StderrTexts :
       LET decoded == decode(stderr_bytes)
           stderr_s == rstrip(decoded.text)
       IN /\ cr_proc' = [cmd |-> cr_args, exit_code |-> exit_code,
                        stderr |-> stderr_bytes]
          /\ cr_outcome' =
               IF exit_code = 0
                 THEN [kind |-> "returned",
                       value |-> IF cr_call.fn = "check_output"
                                   THEN "stdout_bytes" ELSE "0"]
               ELSE IF decoded.raised
                 THEN [kind |-> "UnicodeDecodeError"]
                 ELSE [kind |-> "CalledProcessErrorWithStderrMessage",
                       returncode |-> exit_code,
                       cmd |-> cr_args,
                       stderr |-> stderr_s,
                       message |-> CalledProcessErrorWithStderrMessage_str(
                                     exit_code, cr_args, stderr_s)]
  /\ cr_pc' = "exited"
  /\ cr_call' = NoCall
  /\ cr_args' = <<>>
  /\ UNCHANGED <<is_root, group_exists, user_in_group, proc_in_group,
                 sw_has_run, sw_out, cr_count, elevations, first_elevated>>
  /\ UNCHANGED notCr

\* the return value or the exception reaches the caller; the call is over
ReturnToCaller ==
  /\ cr_pc = "exited"
  /\ cr_pc' = "idle"
  /\ cr_call' = NoCall
  /\ cr_args' = <<>>
  /\ cr_proc' = NoProcess
  /\ cr_outcome' = NoOutcome
  /\ UNCHANGED <<is_root, group_exists, user_in_group, proc_in_group,
                 sw_has_run, sw_out, cr_count, elevations, first_elevated>>
  /\ UNCHANGED notCr

NextRunner ==
  \/ StartCommand
  \/ CommandExits
  \/ ReturnToCaller

(***************************************************************************)
(* Properties of _sudo_fix_args and sudo_warn.                             *)
(***************************************************************************)
\* the argument list of a call before any sudo prefix
PlainArgs(call) ==
  IF call.shell THEN <<"bash", "-c">> \o call.cmd.words ELSE call.cmd.words

\* _sudo_fix_args has returned an argument list for the call in progress
FixedArgs == cr_pc = "running"

Occurs(word, args) == \E i \in 1..Len(args) : args[i] = word

\* C4: when the effective user is root, _sudo_fix_args returns the
\* command's argument list unchanged, whatever use_sudo and run_with_group.
C4_RootNeverElevates ==
  (FixedArgs /\ is_root) => cr_args = PlainArgs(cr_call)

C6_WarnedOnce ==
  /\ Len(sw_out) <= 1
  /\ Len(sw_out) = 1 <=> elevations >= 1
  /\ (elevations >= 1 /\ first_elevated.sudo_reason # None) =>
       sw_out = << <<"Sudo required:", first_elevated.sudo_reason>> >>

\* a second elevated call, with another reason, prints nothing
C6_Witness ==
  /\ FixedArgs
  /\ elevations = 2
  /\ cr_args[1] = "sudo"
  /\ cr_call.sudo_reason = "updating keyring"
  /\ first_elevated.sudo_reason = "installing packages"
  /\ sw_out = << <<"Sudo required:", "installing packages">> >>

\* a runner was called for a command that needs the group of the model while
\* that OS group does not exist
MissingGroupCall ==
  /\ cr_call # NoCall
  /\ cr_call.run_with_group = Group
  /\ ~group_exists

\* C11: a command run with run_with_group = G while the OS group G does not
\* exist ends in ProjectInitError before any child process is started: no
\* argument list reaches subprocess.Popen and the call never goes on as if no
\* elevation were needed.  (An argument list given together with shell=True
\* is rejected with RuntimeError before the group is looked at.)
C11_MissingGroupIsFatal ==
  MissingGroupCall =>
    /\ cr_pc = "exited"
    /\ cr_args = <<>>
    /\ cr_proc = NoProcess
    /\ cr_outcome.kind =
         IF cr_call.shell /\ cr_call.cmd.is_list THEN "RuntimeError"
         ELSE "ProjectInitError"

\* C11 witness: a command with use_sudo false was run for the missing group
\* and the call ended in ProjectInitError.
C11_Witness ==
  /\ MissingGroupCall
  /\ ~cr_call.use_sudo
  /\ ~cr_call.shell
  /\ cr_outcome.kind = "ProjectInitError"

(***************************************************************************)
(* Properties of the *_stderr_exception runners.                           *)
(***************************************************************************)
\* a child process has exited and the runner call has ended
ProcessExited == cr_pc = "exited" /\ cr_proc.cmd # <<>>

\* part occurs in whole as a run of adjacent elements
Contains(whole, part) ==
  \E i \in 0..(Len(whole) - Len(part)) :
    \A j \in 1..Len(part) : whole[i + j] = part[j]

\* text is raw without its trailing whitespace: a prefix of raw, followed in
\* raw by whitespace only, and not itself ending in whitespace
TrailingTrimmed(text, raw) ==
  /\ Len(text) <= Len(raw)
  /\ \A i \in 1..Len(text) : text[i] = raw[i]
  /\ \A i \in (Len(text) + 1)..Len(raw) : raw[i] \in Whitespace
  /\ text = <<>> \/ text[Len(text)] \notin Whitespace

Decodable(raw) == \A i \in 1..Len(raw) : raw[i] # BadByte

\* C10 as stated: a nonzero exit always raises an error carrying the exit
\* code, the executed command and the stderr text trimmed of surrounding
\* whitespace, with that text in its message; exit code 0 raises nothing.
C10_ErrorCarriesStrippedStderr ==
  ProcessExited =>
    IF cr_proc.exit_code = 0
      THEN cr_outcome.kind = "returned"
      ELSE /\ cr_outcome.kind = "CalledProcessErrorWithStderrMessage"
           /\ cr_outcome.returncode = cr_proc.exit_code
           /\ cr_outcome.cmd = cr_proc.cmd
           /\ cr_outcome.stderr = strip(cr_proc.stderr)
           /\ Contains(cr_outcome.message, cr_outcome.stderr)

\* What the runners do where C10 fails: a nonzero exit never returns
\* normally; when the captured stderr decodes, the error carries the exit
\* code, the executed command and the stderr text without its trailing
\* whitespace (leading whitespace is kept), and its message includes that
\* text; when it does not decode, a UnicodeDecodeError is raised in its
\* place; exit code 0 raises nothing.
C10_ErrorCarriesStderr ==
  ProcessExited =>
    IF cr_proc.exit_code = 0
      THEN cr_outcome.kind = "returned"
      ELSE IF Decodable(cr_proc.stderr)
        THEN /\ cr_outcome.kind = "CalledProcessErrorWithStderrMessage"
             /\ cr_outcome.returncode = cr_proc.exit_code
             /\ cr_outcome.cmd = cr_proc.cmd
             /\ TrailingTrimmed(cr_outcome.stderr, cr_proc.stderr)
             /\ Contains(cr_outcome.message, cr_outcome.stderr)
        ELSE cr_outcome.kind = "UnicodeDecodeError"

\* C10 witness: a command failed after writing a byte that is not UTF-8 to
\* stderr, and the caller got a UnicodeDecodeError.
C10_Witness ==
  /\ ProcessExited
  /\ cr_proc.exit_code = 1
  /\ cr_proc.stderr = <<BadByte>>
  /\ cr_outcome.kind = "UnicodeDecodeError"

\* a command run under sudo failed after writing " e" to stderr: the error
\* carries the text with its leading blank
C10_LeadingBlankKept ==
  /\ ProcessExited
  /\ cr_proc.exit_code = 1
  /\ cr_proc.cmd[1] = "sudo"
  /\ cr_proc.stderr = <<" ", "e">>
  /\ cr_outcome.kind = "CalledProcessErrorWithStderrMessage"
  /\ cr_outcome.stderr = <<" ", "e">>

(***************************************************************************)
(* Versions.  A version string such as "1.2.0" is the record of its        *)
(* release segments; None and the string 'latest' are records of their own *)
(* kind, so that the three can be told apart.                              *)
(***************************************************************************)
Ver(release) == [kind |-> "version", release |-> release]
NoVersion == [kind |-> "None"]
Latest == [kind |-> "latest"]

\* the versions the tools and the arguments range over
ToolVersions ==
  {Ver(<<1, 0, 0>>), Ver(<<1, 1, 9>>), Ver(<<1, 2>>), Ver(<<1, 2, 0>>),
   Ver(<<2, 5, 0>>), Ver(<<20, 0, 0>>)}

MIN_GH_VERSION == Ver(<<2, 5, 0>>)
MIN_DOCKER_CLIENT_VERSION == Ver(<<20, 0, 0>>)
MIN_POETRY_VERSION == Ver(<<1, 1, 12>>)

\* segment i of a release, a missing segment counting as zero
Segment(release, i) == IF i <= Len(release) THEN release[i] ELSE 0

RECURSIVE release_ge(_, _, _)
release_ge(r1, r2, i) ==
  IF i > Len(r1) /\ i > Len(r2) THEN TRUE
  ELSE IF Segment(r1, i) > Segment(r2, i) THEN TRUE
  ELSE IF Segment(r1, i) < Segment(r2, i) THEN FALSE
  ELSE release_ge(r1, r2, i + 1)

\* util.check_version_ge: version.parse(version1) >= version.parse(version2)
check_version_ge(version1, version2) ==
  release_ge(version1.release, version2.release, 1)

(***************************************************************************)
(* The tool installers: install_pulumi, install_poetry, install_gh and     *)
(* install_docker.  The branch an installer takes on the probe results is  *)
(* recorded in `decision`.                                                 *)
(***************************************************************************)
Tools == {"pulumi", "poetry", "gh", "docker"}
NoDecision == "none"

\* install_pulumi: `if upgrade_version == 'latest': upgrade_version = None`
pulumi_upgrade_version(upgrade_v) ==
  IF upgrade_v = Latest THEN NoVersion ELSE upgrade_v

\* install_pulumi: `if min_version == 'latest': min_version = get_pulumi_latest_version()`
pulumi_min_version(min_v, latest) ==
  IF min_v = Latest THEN latest ELSE min_v

\* a variant of install_pulumi_decide that looks at the minimum version
\* before the force flag
install_pulumi_min_before_force(installed, old, min_v, upgrade_v, force_flag, latest) ==
  LET upgrade1 == pulumi_upgrade_version(upgrade_v)
      min1 == pulumi_min_version(min_v, latest)
  IN  IF /\ upgrade1 # NoVersion
         /\ min1 # NoVersion
         /\ ~check_version_ge(upgrade1, min1)
      THEN [raised |-> TRUE, decision |-> NoDecision]
      ELSE [raised |-> FALSE,
            decision |->
              IF installed
              THEN IF min1 = NoVersion THEN "Skip"
                   ELSE IF check_version_ge(old, min1) THEN "Skip"
                   ELSE IF force_flag THEN "ForceReinstall"
                   ELSE "Upgrade"
              ELSE "Install"]

\* install_pulumi up to the branch on the installed version
install_pulumi_decide(installed, old, min_v, upgrade_v, force_flag, latest) ==
  LET upgrade1 == pulumi_upgrade_version(upgrade_v)
      min1 == pulumi_min_version(min_v, latest)
  IN  IF /\ upgrade1 # NoVersion
         /\ min1 # NoVersion
         /\ ~check_version_ge(upgrade1, min1)
      THEN [raised |-> TRUE, decision |-> NoDecision]
      ELSE [raised |-> FALSE,
            decision |->
              IF installed
              THEN IF force_flag THEN "ForceReinstall"
                   ELSE IF min1 = NoVersion THEN "Skip"
                   ELSE IF check_version_ge(old, min1) THEN "Skip"
                   ELSE "Upgrade"
              ELSE "Install"]

\* install_poetry up to the construction of the Installer
install_poetry_decide(installed, version, min_v, force_flag) ==
  IF installed
  THEN IF force_flag THEN "ForceReinstall"
       ELSE IF min_v = NoVersion THEN "Skip"
       ELSE IF check_version_ge(version, min_v) THEN "Skip"
       ELSE "Upgrade"
  ELSE "Install"

\* a variant of the decision of install_gh and install_docker that upgrades
\* an installed tool whatever its version
install_apt_tool_decide_always(installed, version, tool_min, force_flag) ==
  IF installed
  THEN IF force_flag THEN "ForceReinstall" ELSE "Upgrade"
  ELSE "Install"

\* install_gh and install_docker up to `if need_client_install:`
install_apt_tool_decide(installed, version, tool_min, force_flag) ==
  IF installed
  THEN IF force_flag THEN "ForceReinstall"
       ELSE IF check_version_ge(version, tool_min) THEN "Skip"
       ELSE "Upgrade"
  ELSE "Install"

\* the values of min_version an installer can be given
MinVersions(t) ==
  CASE t = "pulumi" -> {NoVersion, Latest} \cup ToolVersions
    [] t = "poetry" -> {NoVersion, MIN_POETRY_VERSION} \cup ToolVersions
    [] t = "gh" -> {MIN_GH_VERSION}
    [] t = "docker" -> {MIN_DOCKER_CLIENT_VERSION}

InitInstall ==
  /\ tool \in Tools
  /\ force \in BOOLEAN
  /\ min_version \in MinVersions(tool)
  /\ upgrade_version \in
       IF tool = "pulumi" THEN {NoVersion, Latest} \cup ToolVersions
       ELSE {NoVersion}
  /\ is_installed \in BOOLEAN
  /\ old_version \in IF is_installed THEN ToolVersions ELSE {NoVersion}
  /\ latest_version \in IF tool = "pulumi" THEN ToolVersions ELSE {NoVersion}
  /\ pkg_outdated \in IF tool \in {"gh", "docker"} THEN BOOLEAN ELSE {FALSE}
  /\ in_pc = "start"
  /\ decision = NoDecision
  /\ in_result = "none"
  /\ committed = FALSE
  /\ post_installed = is_installed
  /\ post_version = old_version
  /\ reprobed = FALSE
  /\ ce_attempts = <<>>

inArgs == <<tool, force, min_version, upgrade_version, is_installed,
            old_version, latest_version, pkg_outdated>>

\* the installer ends with `kind`: "skipped", "success" or an exception name
InstallerEnds(kind) ==
  /\ in_pc' = "done"
  /\ in_result' = kind

\* install_pulumi, lines 312-337
DecidePulumi ==
  /\ tool = "pulumi"
  /\ in_pc = "start"
  /\ LET d == install_pulumi_decide(is_installed, old_version, min_version,
                                    upgrade_version, force, latest_version)
     IN  /\ decision' = d.decision
         /\ IF d.raised THEN InstallerEnds("RuntimeError")
            ELSE IF d.decision = "Skip" THEN InstallerEnds("skipped")
            ELSE in_pc' = "install" /\ in_result' = in_result
  /\ UNCHANGED <<inArgs, committed, post_installed, post_version, reprobed,
                 ce_attempts>>
  /\ UNCHANGED notIn

\* install_pulumi, lines 339-346: no probe follows download_pulumi
InstallPulumi ==
  /\ tool = "pulumi"
  /\ in_pc = "install"
  /\ LET min1 == pulumi_min_version(min_version, latest_version)
         upgrade1 == pulumi_upgrade_version(upgrade_version)
     IN  IF /\ upgrade1 = NoVersion
            /\ min1 # NoVersion
            /\ ~check_version_ge(latest_version, min1)
         THEN /\ InstallerEnds("RuntimeError")
              /\ UNCHANGED <<committed, post_installed, post_version>>
         ELSE \/ \* download_pulumi raises
                 /\ InstallerEnds("RuntimeError")
                 /\ UNCHANGED <<committed, post_installed, post_version>>
              \/ \* download_pulumi returns
                 /\ InstallerEnds("success")
                 /\ committed' = TRUE
                 /\ post_installed' = TRUE
                 /\ post_version' \in ToolVersions
  /\ UNCHANGED <<inArgs, decision, reprobed, ce_attempts>>
  /\ UNCHANGED notIn

\* install_poetry, lines 104-120
DecidePoetry ==
  /\ tool = "poetry"
  /\ in_pc = "start"
  /\ decision' = install_poetry_decide(is_installed, old_version, min_version,
                                       force)
  /\ IF decision' = "Skip" THEN InstallerEnds("skipped")
     ELSE in_pc' = "install" /\ in_result' = in_result
  /\ UNCHANGED <<inArgs, committed, post_installed, post_version, reprobed,
                 ce_attempts>>
  /\ UNCHANGED notIn

\* install_poetry, lines 121-124: only the exit code is looked at
InstallPoetry ==
  /\ tool = "poetry"
  /\ in_pc = "install"
  /\ \E exit_code \in {0, 1} :
       IF exit_code # 0
       THEN /\ InstallerEnds("ProjectInitError")
            /\ UNCHANGED <<committed, post_installed, post_version>>
       ELSE /\ InstallerEnds("success")
            /\ committed' = TRUE
            /\ post_installed' \in BOOLEAN
            /\ post_version' \in
                 IF post_installed' THEN ToolVersions ELSE {NoVersion}
  /\ UNCHANGED <<inArgs, decision, reprobed, ce_attempts>>
  /\ UNCHANGED notIn

\* the state of the tool after its package was upgraded: what a probe of
\* the command would find
ToolReplaced ==
  /\ committed' = TRUE
  /\ post_installed' \in BOOLEAN
  /\ post_version' \in IF post_installed' THEN ToolVersions ELSE {NoVersion}

\* PackageList of the tool's package: `add_packages` under force, else
\* `add_package_if_outdated`; TRUE when the list is not empty
package_listed(force_flag, outdated) == force_flag \/ outdated

\* the re-probe after the upgrade, shared by install_gh (121-131) and
\* install_docker (276-287); the exception raised, or "none"
verify_tool(installed_now, version_now, tool_min) ==
  IF ~installed_now THEN "ProjectInitError"
  ELSE IF ~check_version_ge(version_now, tool_min) THEN "ProjectInitError"
  ELSE "none"

\* install_gh, lines 80-96
DecideGh ==
  /\ tool = "gh"
  /\ in_pc = "start"
  /\ decision' = install_apt_tool_decide(is_installed, old_version,
                                         MIN_GH_VERSION, force)
  /\ IF decision' = "Skip" THEN InstallerEnds("skipped")
     ELSE in_pc' = "prepare" /\ in_result' = in_result
  /\ UNCHANGED <<inArgs, committed, post_installed, post_version, reprobed,
                 ce_attempts>>
  /\ UNCHANGED notIn

\* install_gh, lines 101-112: update_gpg_keyring and update_apt_sources_list
PrepareGh ==
  /\ tool = "gh"
  /\ in_pc = "prepare"
  /\ \/ InstallerEnds("CalledProcessError")
     \/ in_pc' = "install" /\ in_result' = in_result
  /\ UNCHANGED <<inArgs, decision, committed, post_installed, post_version,
                 reprobed, ce_attempts>>
  /\ UNCHANGED notIn

\* install_gh, lines 114-119: the upgrade of the package gh
InstallGh ==
  /\ tool = "gh"
  /\ in_pc = "install"
  /\ IF package_listed(force, pkg_outdated)
     THEN \/ /\ InstallerEnds("CalledProcessError")
             /\ UNCHANGED <<committed, post_installed, post_version>>
          \/ /\ in_pc' = "verify"
             /\ in_result' = in_result
             /\ ToolReplaced
     ELSE /\ in_pc' = "verify"
          /\ in_result' = in_result
          /\ UNCHANGED <<committed, post_installed, post_version>>
  /\ UNCHANGED <<inArgs, decision, reprobed, ce_attempts>>
  /\ UNCHANGED notIn

\* install_gh, lines 121-131
VerifyGh ==
  /\ tool = "gh"
  /\ in_pc = "verify"
  /\ reprobed' = TRUE
  /\ LET raised == verify_tool(post_installed, post_version, MIN_GH_VERSION)
     IN  IF raised # "none" THEN InstallerEnds(raised)
         ELSE InstallerEnds("success")
  /\ UNCHANGED <<inArgs, decision, committed, post_installed, post_version,
                 ce_attempts>>
  /\ UNCHANGED notIn

\* install_docker, lines 197-216; with need_client_install False the
\* installer goes on to the checks after the client install
DecideDocker ==
  /\ tool = "docker"
  /\ in_pc = "start"
  /\ decision' = install_apt_tool_decide(is_installed, old_version,
                                         MIN_DOCKER_CLIENT_VERSION, force)
  /\ in_pc' = IF decision' = "Skip" THEN "finish" ELSE "prepare"
  /\ UNCHANGED <<inArgs, in_result, committed, post_installed, post_version,
                 reprobed, ce_attempts>>
  /\ UNCHANGED notIn

\* install_docker, lines 217-246: removal of the old packages, the
\* prerequisites, the keyring, the apt source and containerd.io
PrepareDocker ==
  /\ tool = "docker"
  /\ in_pc = "prepare"
  /\ \/ InstallerEnds("CalledProcessError")
     \/ in_pc' = "docker-ce" /\ in_result' = in_result
  /\ UNCHANGED <<inArgs, decision, committed, post_installed, post_version,
                 reprobed, ce_attempts>>
  /\ UNCHANGED notIn

\* the exit of one `apt-get upgrade -y docker-ce` run by pl.upgrade_all():
\* subprocess.check_call returns on 0 and raises CalledProcessError otherwise
UpgradeOutcomes == {"ok", "CalledProcessError"}

\* install_docker, lines 251-260: the first attempt
UpgradeDockerCe ==
  /\ tool = "docker"
  /\ in_pc = "docker-ce"
  /\ IF package_listed(force, pkg_outdated)
     THEN \E outcome \in UpgradeOutcomes :
            /\ ce_attempts' = Append(ce_attempts, outcome)
            /\ in_pc' = IF outcome = "ok" THEN "docker-ce-cli" ELSE "retry"
            /\ committed' = (outcome = "ok")
     ELSE /\ in_pc' = "docker-ce-cli"
          /\ UNCHANGED <<ce_attempts, committed>>
  /\ UNCHANGED <<inArgs, decision, in_result, post_installed, post_version,
                 reprobed>>
  /\ UNCHANGED notIn

\* a variant of the except clause that goes on after a failed second attempt
RetryDockerCeSwallowed ==
  /\ tool = "docker"
  /\ in_pc = "retry"
  /\ \E outcome \in UpgradeOutcomes :
       /\ ce_attempts' = Append(ce_attempts, outcome)
       /\ in_pc' = "docker-ce-cli"
       /\ in_result' = in_result
       /\ committed' = (outcome = "ok")
  /\ UNCHANGED <<inArgs, decision, post_installed, post_version, reprobed>>
  /\ UNCHANGED notIn

\* install_docker, lines 261-267: the except clause runs pl.upgrade_all()
\* once more, outside any try
RetryDockerCe ==
  /\ tool = "docker"
  /\ in_pc = "retry"
  /\ \E outcome \in UpgradeOutcomes :
       /\ ce_attempts' = Append(ce_attempts, outcome)
       /\ IF outcome = "ok"
          THEN in_pc' = "docker-ce-cli" /\ in_result' = in_result
          ELSE InstallerEnds("CalledProcessError")
       /\ committed' = (outcome = "ok")
  /\ UNCHANGED <<inArgs, decision, post_installed, post_version, reprobed>>
  /\ UNCHANGED notIn

\* install_docker, lines 269-274: the upgrade of docker-ce-cli
UpgradeDockerCeCli ==
  /\ tool = "docker"
  /\ in_pc = "docker-ce-cli"
  /\ \E cli_outdated \in BOOLEAN :
       IF package_listed(force, cli_outdated)
       THEN \/ /\ InstallerEnds("CalledProcessError")
               /\ UNCHANGED <<committed, post_installed, post_version>>
            \/ /\ in_pc' = "verify"
               /\ in_result' = in_result
               /\ ToolReplaced
       ELSE /\ in_pc' = "verify"
            /\ in_result' = in_result
            /\ IF committed THEN ToolReplaced
               ELSE UNCHANGED <<committed, post_installed, post_version>>
  /\ UNCHANGED <<inArgs, decision, reprobed, ce_attempts>>
  /\ UNCHANGED notIn

\* install_docker, lines 276-287
VerifyDocker ==
  /\ tool = "docker"
  /\ in_pc = "verify"
  /\ reprobed' = TRUE
  /\ LET raised == verify_tool(post_installed, post_version,
                               MIN_DOCKER_CLIENT_VERSION)
     IN  IF raised # "none" THEN InstallerEnds(raised)
         ELSE in_pc' = "finish" /\ in_result' = in_result
  /\ UNCHANGED <<inArgs, decision, committed, post_installed, post_version,
                 ce_attempts>>
  /\ UNCHANGED notIn

\* the commands install_docker can run after the client install
Usermod == "sudo usermod -a -G docker"
ServerProbeWithGroup == "sudo -E -u docker version"
InstallQemu == "sudo apt-get install"
FixBinfmt == "sudo update-binfmts"

\* install_docker, lines 289-334, for a user who is in the docker group or
\* not (member), a process whose group list holds docker or not, and QEMU
\* support that is complete or not.  os_group_add_user('docker') runs usermod
\* unless the current user is in the group of their own name (own_group);
\* get_docker_server_version runs docker through sudo -E -u when the user is
\* in the group and the process is not; `failing` names the command that
\* fails, if any
install_docker_tail(member, process, qemu, has_group, own_group, failing) ==
  LET usermod_runs == ~member /\ ~own_group
      c1 == IF usermod_runs THEN <<Usermod>> ELSE <<>>
      member1 == member \/ usermod_runs
      c2 == c1 \o (IF ~process THEN <<ServerProbeWithGroup>> ELSE <<>>)
      c3 == c2 \o (IF qemu THEN <<>> ELSE <<InstallQemu, FixBinfmt>>)
      ends(commands, kind, at, m, q) ==
        [commands |-> commands, result |-> kind, failed_at |-> at,
         member |-> m, qemu |-> q]
  IN  IF ~has_group
      THEN ends(<<>>, "ProjectInitError", "none", member, qemu)
      ELSE IF usermod_runs /\ failing = "usermod"
      THEN ends(c1, "CalledProcessError", "usermod", member, qemu)
      ELSE IF ~member1
      THEN ends(c1, "ProjectInitError", "none", member, qemu)
      ELSE IF failing = "server"
      THEN ends(c2, "ProjectInitError", "server", member1, qemu)
      ELSE IF ~qemu /\ failing = "qemu"
      THEN ends(c3, "CalledProcessError", "qemu", member1, qemu)
      ELSE ends(c3, "success", "none", member1, TRUE)

\* install_docker, lines 289-334: the docker group, the server version, the
\* QEMU packages and the binfmt registration
FinishDocker ==
  /\ tool = "docker"
  /\ in_pc = "finish"
  /\ \E group_exists_now \in BOOLEAN, in_own_group \in BOOLEAN,
        failing \in {"none", "usermod", "server", "qemu"} :
       LET r == install_docker_tail(docker_member, docker_process,
                                    qemu_ready, group_exists_now,
                                    in_own_group, failing)
       IN  /\ docker_member => group_exists_now
           /\ r.failed_at = failing
           /\ InstallerEnds(r.result)
           /\ fin_commands' = r.commands
           /\ docker_member' = r.member
           /\ qemu_ready' = r.qemu
  /\ UNCHANGED <<inArgs, decision, committed, post_installed, post_version,
                 reprobed, ce_attempts, in_calls, docker_process>>
  /\ UNCHANGED notInTail

\* the installer is invoked again with the same arguments after an
\* invocation without force that returned: the probe finds what the tool
\* reports now
InvokeAgain ==
  /\ in_pc = "done"
  /\ in_result \in {"success", "skipped"}
  /\ ~force
  /\ in_calls < MaxInstallerCalls
  /\ in_calls' = in_calls + 1
  /\ is_installed' = post_installed
  /\ old_version' = post_version
  /\ pkg_outdated' \in IF tool \in {"gh", "docker"} THEN BOOLEAN ELSE {FALSE}
  /\ in_pc' = "start"
  /\ decision' = NoDecision
  /\ in_result' = "none"
  /\ committed' = FALSE
  /\ reprobed' = FALSE
  /\ ce_attempts' = <<>>
  /\ fin_commands' = <<>>
  /\ UNCHANGED <<tool, force, min_version, upgrade_version, latest_version,
                 post_installed, post_version, docker_member, docker_process,
                 qemu_ready>>
  /\ UNCHANGED notInTail

\* invocations start with the docker group and QEMU support in any state;
\* a process that has the group belongs to a user who is in it
InitTail ==
  /\ in_calls = 1
  /\ docker_member \in IF tool = "docker" THEN BOOLEAN ELSE {FALSE}
  /\ docker_process \in IF docker_member THEN BOOLEAN ELSE {FALSE}
  /\ qemu_ready \in IF tool = "docker" THEN BOOLEAN ELSE {FALSE}
  /\ fin_commands = <<>>

NextInstall ==
  \/ DecidePulumi
  \/ InstallPulumi
  \/ DecidePoetry
  \/ InstallPoetry
  \/ DecideGh
  \/ PrepareGh
  \/ InstallGh
  \/ VerifyGh
  \/ DecideDocker
  \/ PrepareDocker
  \/ UpgradeDockerCe
  \/ RetryDockerCe
  \/ UpgradeDockerCeCli
  \/ VerifyDocker
  \/ FinishDocker
  \/ InvokeAgain

(***************************************************************************)
(* Properties of the installers.                                           *)
(***************************************************************************)
\* the minimum the installed version is compared with
ResolvedMin ==
  IF min_version = Latest THEN latest_version ELSE min_version

\* the decision table of an installer
DecideTable(installed, current, min_v, force_flag) ==
  IF ~installed THEN "Install"
  ELSE IF force_flag THEN "ForceReinstall"
  ELSE IF min_v = NoVersion THEN "Skip"
  ELSE IF check_version_ge(current, min_v) THEN "Skip"
  ELSE "Upgrade"

MeetsRequestedMin ==
  /\ post_installed
  /\ ResolvedMin # NoVersion => check_version_ge(post_version, ResolvedMin)

\* C8: an installer that has put new content in place, after which the tool
\* does not report a version meeting the requested minimum, does not report
\* success.
C8_SuccessIsVerified ==
  (committed /\ ~MeetsRequestedMin) => in_result # "success"

\* C8 witness: install_gh upgraded the package, probed a version below the
\* minimum and raised instead of reporting success.
C8_Witness ==
  /\ tool = "gh"
  /\ committed
  /\ reprobed
  /\ post_installed
  /\ ~check_version_ge(post_version, MIN_GH_VERSION)
  /\ in_result = "ProjectInitError"

\* C9: in one run of install_docker the docker-ce upgrade is invoked at most
\* twice; a second invocation happens exactly when the first one failed; a
\* failure of the second invocation is the error the installer ends with;
\* and the installer reports success only if the last invocation succeeded.
C9_SingleRetry ==
  /\ Len(ce_attempts) <= 2
  /\ Len(ce_attempts) = 2 => ce_attempts[1] = "CalledProcessError"
  /\ (Len(ce_attempts) = 1 /\ ce_attempts[1] = "CalledProcessError") =>
       in_pc = "retry"
  /\ (Len(ce_attempts) = 2 /\ ce_attempts[2] = "CalledProcessError") =>
       (in_pc = "done" /\ in_result = "CalledProcessError")
  /\ (in_result = "success" /\ ce_attempts # <<>>) =>
       ce_attempts[Len(ce_attempts)] = "ok"

\* C9 witness: both invocations failed and the installer ended with the
\* second error.
C9_Witness ==
  /\ tool = "docker"
  /\ ce_attempts = <<"CalledProcessError", "CalledProcessError">>
  /\ in_pc = "done"
  /\ in_result = "CalledProcessError"

\* C9 witness of the other branch: the retry succeeded and the installer
\* went on to report success.
C9_RetrySucceeded ==
  /\ ce_attempts = <<"CalledProcessError", "ok">>
  /\ in_result = "success"

\* the minimum the current invocation asks of the version probed
RequestedMinimum ==
  IF tool = "pulumi" THEN pulumi_min_version(min_version, latest_version)
  ELSE min_version

\* a repeated invocation whose probe finds the tool with a version that
\* satisfies the requested minimum
RepeatedAndSatisfied ==
  /\ in_calls > 1
  /\ is_installed
  /\ RequestedMinimum = NoVersion
       \/ check_version_ge(old_version, RequestedMinimum)

\* the invocation decides Skip and installs nothing: it never gets to the
\* steps that download, stage, move or run the package manager, and returns
\* "skipped" (installed = False) where it returns right after the decision
SkipsTheInstall ==
  /\ in_pc # "start" => decision = "Skip"
  /\ in_pc \in {"start", "finish", "done"}
  /\ ~committed
  /\ ce_attempts = <<>>
  /\ post_installed = is_installed
  /\ post_version = old_version
  /\ (in_pc = "done" /\ tool # "docker") => in_result = "skipped"

\* C24 as stated: after an invocation without force that succeeded, with the
\* tool reporting a version that satisfies the requested minimum, the same
\* invocation made again decides Skip: no download, no staging, no file
\* move, and no package-manager or privileged command.
C24_RepeatedInvocationSkips ==
  RepeatedAndSatisfied =>
    /\ SkipsTheInstall
    /\ fin_commands = <<>>

\* C24 amended: as stated, except that install_docker still probes the
\* docker server after deciding Skip, and runs that probe through
\* sudo -E -u when the user is in the docker group and the process is not;
\* no usermod and no package-manager command is run.
C24_RepeatedInvocationSkipsInstall ==
  RepeatedAndSatisfied =>
    /\ SkipsTheInstall
    /\ fin_commands \in {<<>>, <<ServerProbeWithGroup>>}
    /\ fin_commands # <<>> => (tool = "docker" /\ ~docker_process)

\* C24 witness: install_docker invoked again by a user in the docker group
\* from a process that is not decided Skip, ran the server probe through
\* sudo and returned.
C24_Witness ==
  /\ RepeatedAndSatisfied
  /\ tool = "docker"
  /\ decision = "Skip"
  /\ in_pc = "done"
  /\ in_result = "success"
  /\ docker_member /\ ~docker_process
  /\ fin_commands = <<ServerProbeWithGroup>>

\* install_pulumi invoked again with min_version 'latest' returned without
\* installing
C24_PulumiSkipped ==
  /\ RepeatedAndSatisfied
  /\ tool = "pulumi"
  /\ min_version = Latest
  /\ in_pc = "done"
  /\ in_result = "skipped"

\* the first install_docker of a user who was not in the docker group ran
\* usermod, the server probe through sudo and the QEMU installation
C24_FirstDockerInstall ==
  /\ in_calls = 1
  /\ tool = "docker"
  /\ in_result = "success"
  /\ fin_commands = <<Usermod, ServerProbeWithGroup, InstallQemu, FixBinfmt>>

(***************************************************************************)
(* PackageList and the apt helpers of os_packages.py.                      *)
(***************************************************************************)
\* the package names of the model, in the order sorted() puts them
SortedPackages == <<"a", "b", "c">>
Packages == {SortedPackages[i] : i \in DOMAIN SortedPackages}

\* the lists of names handed to the add operations
AddArguments ==
  {<<"a">>, <<"b", "a">>, <<"a", "b", "a">>, <<"c", "a">>, <<"b", "c", "b">>}

\* sorted(names) for a list of package names without repetition
sorted(names) ==
  SelectSeq(SortedPackages, LAMBDA p : \E i \in DOMAIN names : names[i] = p)

\* the elements of a list, as a set
Elements(names) == {names[i] : i \in DOMAIN names}

\* [ x for x in names if keep(x) ]
Filtered(names, kept) == SelectSeq(names, LAMBDA p : p \in kept)

\* a variant of add_packages that appends every name it is given
RECURSIVE add_packages_unchecked(_, _)
add_packages_unchecked(pl, names) ==
  IF names = <<>> THEN pl
  ELSE add_packages_unchecked(
         [names |-> Append(pl.names, Head(names)),
          set |-> pl.set \cup {Head(names)}],
         Tail(names))

\* PackageList.add_packages: the loop over package_names
RECURSIVE add_packages(_, _)
add_packages(pl, names) ==
  IF names = <<>> THEN pl
  ELSE add_packages(
         IF Head(names) \notin pl.set
         THEN [names |-> Append(pl.names, Head(names)),
               set |-> pl.set \cup {Head(names)}]
         ELSE pl,
         Tail(names))

\* PackageList.add_packages_if_missing: the loop over package_names, with
\* os_package_is_installed answered from `installed`
RECURSIVE add_packages_if_missing(_, _, _)
add_packages_if_missing(pl, names, installed) ==
  IF names = <<>> THEN pl
  ELSE add_packages_if_missing(
         IF Head(names) \notin pl.set /\ Head(names) \notin installed
         THEN add_packages(pl, <<Head(names)>>)
         ELSE pl,
         Tail(names), installed)

\* PackageList.__len__
PackageList_len(names) == Len(names)

\* PackageList.__iter__: the names in the order it yields them
PackageList_iter(names) == sorted(names)

\* the current PackageList as a record
CurrentList == [names |-> package_names, set |-> package_name_set]

\* one package-manager invocation
Invocation(cmd, packages) ==
  [cmd |-> cmd, packages |-> packages, stale |-> metadata_stale]

\* what is remembered of the last operation
Operation(kind, force_flag, issued, raised) ==
  [kind |-> kind, force |-> force_flag, listed |-> package_names,
   installed_before |-> os_installed, outdated_before |-> os_outdated,
   stale_before |-> metadata_stale,
   sources_before |-> sources_file, keyring_before |-> keyring_file,
   wanted |-> "none",
   invalidated |-> FALSE, issued |-> issued, raised |-> raised]

NoOperation ==
  [kind |-> "none", force |-> FALSE, listed |-> <<>>,
   installed_before |-> {}, outdated_before |-> {}, stale_before |-> TRUE,
   sources_before |-> "absent", keyring_before |-> "absent",
   wanted |-> "none", invalidated |-> FALSE,
   issued |-> <<>>, raised |-> FALSE]

InitPackages ==
  /\ package_names = <<>>
  /\ package_name_set = {}
  /\ requested = <<>>
  /\ os_installed \in SUBSET Packages
  /\ os_outdated \in SUBSET os_installed
  /\ metadata_stale = TRUE
  /\ pk_op = NoOperation
  /\ pk_ops = 0

\* an operation that only changes the PackageList
ListBecomes(pl, kind, asked) ==
  /\ pk_ops < MaxPackageOps
  /\ pk_ops' = pk_ops + 1
  /\ package_names' = pl.names
  /\ package_name_set' = pl.set
  /\ requested' = requested \o asked
  /\ pk_op' = Operation(kind, FALSE, <<>>, FALSE)
  /\ UNCHANGED <<os_installed, os_outdated, metadata_stale>>
  /\ UNCHANGED notPk

\* pl.add_packages(names)
AddPackages ==
  \E names \in AddArguments :
    ListBecomes(add_packages(CurrentList, names), "add_packages", names)

\* pl.add_packages_if_missing(names)
AddPackagesIfMissing ==
  \E names \in AddArguments :
    ListBecomes(add_packages_if_missing(CurrentList, names, os_installed),
                "add_packages_if_missing",
                Filtered(names, Packages \ os_installed))

\* pl.add_package_if_cmd_missing(cmd, package_name)
AddPackageIfCmdMissing ==
  \E package_name \in Packages, command_exists \in BOOLEAN :
    IF package_name \notin package_name_set /\ ~command_exists
    THEN ListBecomes(add_packages(CurrentList, <<package_name>>),
                     "add_package_if_cmd_missing", <<package_name>>)
    ELSE ListBecomes(CurrentList, "add_package_if_cmd_missing",
                     IF command_exists THEN <<>> ELSE <<package_name>>)

\* pl.add_package_if_outdated(package_name, min_version)
AddPackageIfOutdated ==
  \E package_name \in Packages :
    LET outdated == \/ package_name \notin os_installed
                    \/ package_name \in os_outdated
    IN  IF package_name \notin package_name_set /\ outdated
        THEN ListBecomes(add_packages(CurrentList, <<package_name>>),
                         "add_package_if_outdated", <<package_name>>)
        ELSE ListBecomes(CurrentList, "add_package_if_outdated",
                         IF outdated THEN <<package_name>> ELSE <<>>)

\* a variant of install_os_packages that runs apt-get once per package
install_os_packages_one_by_one(names, installed) ==
  LET filtered == Filtered(names, Packages \ installed)
  IN  [i \in 1..Len(filtered) |-> Invocation("install", <<filtered[i]>>)]

\* install_os_packages(package_names): the invocations it issues
install_os_packages(names, installed) ==
  LET filtered == Filtered(names, Packages \ installed)
  IN  IF Len(filtered) > 0 THEN <<Invocation("install", filtered)>> ELSE <<>>

\* upgrade_os_packages(package_names): the invocations it issues
upgrade_os_packages(names) ==
  IF Len(names) > 0 THEN <<Invocation("upgrade", names)>> ELSE <<>>

\* uninstall_os_packages(package_names): the invocations it issues
uninstall_os_packages(names, installed) ==
  LET filtered == Filtered(names, installed)
  IN  IF Len(filtered) > 0 THEN <<Invocation("remove", filtered)>> ELSE <<>>

\* an operation that runs the package manager: `issued` are its invocations,
\* the last of which may exit nonzero (sudo_check_call raises), and
\* `installed_after` and `outdated_after` are the packages installed and
\* outdated once all of them succeeded
PackageManagerRuns(kind, issued, installed_after, outdated_after) ==
  /\ pk_ops < MaxPackageOps
  /\ pk_ops' = pk_ops + 1
  /\ \E ok \in BOOLEAN :
       /\ issued = <<>> => ok
       /\ pk_op' = Operation(kind, FALSE, issued, ~ok)
       /\ os_installed' = IF ok THEN installed_after ELSE os_installed
       /\ os_outdated' = IF ok THEN outdated_after ELSE os_outdated
  /\ UNCHANGED <<package_names, package_name_set, requested, metadata_stale>>
  /\ UNCHANGED notPk

\* pl.install_all()
InstallAll ==
  LET issued == IF Len(package_names) > 0
                THEN install_os_packages(package_names, os_installed)
                ELSE <<>>
  IN  PackageManagerRuns("install_all", issued,
                         os_installed \cup Elements(package_names),
                         os_outdated)

\* pl.upgrade_all(); apt-get upgrade may or may not install a named package
\* that is missing
UpgradeAll ==
  LET issued == IF Len(package_names) > 0
                THEN upgrade_os_packages(package_names)
                ELSE <<>>
  IN  \E newly \in SUBSET (Elements(package_names) \ os_installed) :
        PackageManagerRuns("upgrade_all", issued, os_installed \cup newly,
                           os_outdated \ Elements(package_names))

\* pl.uninstall_all()
UninstallAll ==
  LET issued == IF Len(package_names) > 0
                THEN uninstall_os_packages(package_names, os_installed)
                ELSE <<>>
  IN  PackageManagerRuns("uninstall_all", issued,
                         os_installed \ Elements(package_names),
                         os_outdated \ Elements(package_names))

\* pl = PackageList(): a new, empty list
NewPackageList ==
  /\ pk_ops < MaxPackageOps
  /\ package_names # <<>>
  /\ pk_ops' = pk_ops + 1
  /\ package_names' = <<>>
  /\ package_name_set' = {}
  /\ requested' = <<>>
  /\ pk_op' = Operation("PackageList", FALSE, <<>>, FALSE)
  /\ UNCHANGED <<os_installed, os_outdated, metadata_stale>>
  /\ UNCHANGED notPk

\* a variant of invalidate_os_package_list that leaves the flag cleared
invalidate_os_package_list_cleared == FALSE

\* invalidate_os_package_list(): the flag after it
invalidate_os_package_list == TRUE

\* a variant of update_os_package_list that clears the flag before running
\* apt-get update
update_os_package_list_clears_first(force_flag, stale, ok) ==
  LET stale1 == force_flag \/ stale
  IN  IF stale1
      THEN [issued |-> <<[cmd |-> "update", packages |-> <<>>,
                          stale |-> stale1]>>,
            stale |-> FALSE, raised |-> ~ok]
      ELSE [issued |-> <<>>, stale |-> stale1, raised |-> FALSE]

\* update_os_package_list(force): the invocation it issues, the flag after
\* it, and whether sudo_check_call raised (apt-get update exited nonzero)
update_os_package_list(force_flag, stale, ok) ==
  LET stale1 == force_flag \/ stale
  IN  IF stale1
      THEN [issued |-> <<[cmd |-> "update", packages |-> <<>>,
                          stale |-> stale1]>>,
            stale |-> ~ok, raised |-> ~ok]
      ELSE [issued |-> <<>>, stale |-> stale1, raised |-> FALSE]

\* update_os_package_list(force=...)
UpdateOsPackageList ==
  /\ pk_ops < MaxPackageOps
  /\ pk_ops' = pk_ops + 1
  /\ \E force_flag \in BOOLEAN, ok \in BOOLEAN :
       LET u == update_os_package_list(force_flag, metadata_stale, ok)
       IN  /\ metadata_stale' = u.stale
           /\ pk_op' = Operation("update_os_package_list", force_flag,
                                 u.issued, u.raised)
  /\ UNCHANGED <<package_names, package_name_set, requested, os_installed,
                 os_outdated>>
  /\ UNCHANGED notPk

\* contents an apt sources list file can have: the line generated from the
\* arguments dest_file, signed_by, url and args
SourcesContents == {"deb s1", "deb s2"}

\* contents a GPG keyring can have: what the url gives, filtered
KeyringContents == {"key k1", "key k2"}

\* a privileged command other than apt-get, and the flag it ran under
Privileged(cmd, stale) == [cmd |-> cmd, packages |-> <<>>, stale |-> stale]

\* update_apt_sources_list: what it does to a dest_file holding `current`
\* when the generated line is `wanted`.  Nothing happens when the file is
\* already as wanted; else chown_root, invalidate_os_package_list, unix_mv
\* and update_os_package_list run in this order, and `failing` names the
\* command that fails, if any
update_apt_sources_list(current, wanted, stale, failing) ==
  LET marked == invalidate_os_package_list
      u == update_os_package_list(FALSE, marked, failing # "update")
      nothing == [issued |-> <<>>, raised |-> FALSE, invalidated |-> FALSE,
                  stale |-> stale, sources |-> current]
  IN  IF current = wanted THEN nothing
      ELSE IF failing = "chown"
      THEN [nothing EXCEPT !.issued = <<Privileged("chown", stale)>>,
                           !.raised = TRUE]
      ELSE IF failing = "mv"
      THEN [nothing EXCEPT !.issued = <<Privileged("chown", stale),
                                        Privileged("mv", marked)>>,
                           !.raised = TRUE,
                           !.invalidated = TRUE,
                           !.stale = marked]
      ELSE [issued |-> <<Privileged("chown", stale), Privileged("mv", marked)>>
                     \o u.issued,
            raised |-> u.raised,
            invalidated |-> TRUE,
            stale |-> u.stale,
            sources |-> wanted]

\* a variant of update_gpg_keyring that installs the download without
\* comparing it with dest_file
update_gpg_keyring_always_moves(current, wanted, failing) ==
  LET nothing == [issued |-> <<>>, raised |-> FALSE, keyring |-> current]
      moved == <<Privileged("chown", metadata_stale),
                 Privileged("mv", metadata_stale)>>
  IN  IF failing = "download" THEN [nothing EXCEPT !.raised = TRUE]
      ELSE IF failing = "chown"
      THEN [nothing EXCEPT !.issued = <<Privileged("chown", metadata_stale)>>,
                           !.raised = TRUE]
      ELSE IF failing = "mv"
      THEN [nothing EXCEPT !.issued = moved,
                           !.raised = TRUE]
      ELSE [issued |-> moved,
            raised |-> FALSE,
            keyring |-> wanted]

\* update_gpg_keyring: what it does to a dest_file holding `current` when
\* the download gives `wanted`.  The download comes first; nothing more
\* happens when the file is already as wanted; else chown_root and unix_mv
\* run
update_gpg_keyring(current, wanted, failing) ==
  LET nothing == [issued |-> <<>>, raised |-> FALSE, keyring |-> current]
      moved == <<Privileged("chown", metadata_stale),
                 Privileged("mv", metadata_stale)>>
  IN  IF failing = "download" THEN [nothing EXCEPT !.raised = TRUE]
      ELSE IF current = wanted THEN nothing
      ELSE IF failing = "chown"
      THEN [nothing EXCEPT !.issued = <<Privileged("chown", metadata_stale)>>,
                           !.raised = TRUE]
      ELSE IF failing = "mv"
      THEN [nothing EXCEPT !.issued = moved,
                           !.raised = TRUE]
      ELSE [issued |-> moved,
            raised |-> FALSE,
            keyring |-> wanted]

\* an operation on the apt sources list file: `r` is what
\* update_apt_sources_list did, or did not do
SourcesBecome(kind, wanted, r) ==
  /\ pk_ops < MaxPackageOps
  /\ pk_ops' = pk_ops + 1
  /\ pk_op' = [Operation(kind, FALSE, r.issued, r.raised) EXCEPT
                 !.wanted = wanted, !.invalidated = r.invalidated]
  /\ metadata_stale' = r.stale
  /\ sources_file' = r.sources
  /\ UNCHANGED <<package_names, package_name_set, requested, os_installed,
                 os_outdated, keyring_file>>
  /\ UNCHANGED notPkSr

\* an operation on the GPG keyring file
KeyringBecomes(kind, wanted, r) ==
  /\ pk_ops < MaxPackageOps
  /\ pk_ops' = pk_ops + 1
  /\ pk_op' = [Operation(kind, FALSE, r.issued, r.raised) EXCEPT
                 !.wanted = wanted]
  /\ keyring_file' = r.keyring
  /\ UNCHANGED <<package_names, package_name_set, requested, os_installed,
                 os_outdated, metadata_stale, sources_file>>
  /\ UNCHANGED notPkSr

\* the values of `failing` that name a step the call gets to
Reached(r, failing) == failing = "none" \/ r.raised

SourcesFailures == {"none", "chown", "mv", "update"}
KeyringFailures == {"none", "download", "chown", "mv"}

\* update_apt_sources_list(dest_file, signed_by, url, *args)
UpdateAptSourcesList ==
  \E wanted \in SourcesContents, failing \in SourcesFailures :
    LET r == update_apt_sources_list(sources_file, wanted, metadata_stale,
                                     failing)
    IN  /\ Reached(r, failing)
        /\ SourcesBecome("update_apt_sources_list", wanted, r)

\* install_apt_sources_list_if_missing(dest_file, signed_by, url, *args)
InstallAptSourcesListIfMissing ==
  \E wanted \in SourcesContents, failing \in SourcesFailures :
    LET r == IF os_path_exists(sources_file)
             THEN update_apt_sources_list(sources_file, sources_file,
                                          metadata_stale, "none")
             ELSE update_apt_sources_list(sources_file, wanted,
                                          metadata_stale, failing)
    IN  /\ os_path_exists(sources_file) => failing = "none"
        /\ Reached(r, failing)
        /\ SourcesBecome("install_apt_sources_list_if_missing", wanted, r)

\* update_gpg_keyring(url, dest_file)
UpdateGpgKeyring ==
  \E wanted \in KeyringContents, failing \in KeyringFailures :
    LET r == update_gpg_keyring(keyring_file, wanted, failing)
    IN  /\ Reached(r, failing)
        /\ KeyringBecomes("update_gpg_keyring", wanted, r)

\* install_gpg_keyring_if_missing(url, dest_file): no download either when
\* the file exists
InstallGpgKeyringIfMissing ==
  \E wanted \in KeyringContents, failing \in KeyringFailures :
    LET r == IF os_path_exists(keyring_file)
             THEN update_gpg_keyring(keyring_file, keyring_file, "none")
             ELSE update_gpg_keyring(keyring_file, wanted, failing)
    IN  /\ os_path_exists(keyring_file) => failing = "none"
        /\ Reached(r, failing)
        /\ KeyringBecomes("install_gpg_keyring_if_missing", wanted, r)

\* update_and_install_os_packages(package_names): the one install path that
\* calls update_os_package_list before apt-get install
UpdateAndInstallOsPackages ==
  /\ pk_ops < MaxPackageOps
  /\ pk_ops' = pk_ops + 1
  /\ \E names \in AddArguments, update_ok \in BOOLEAN, install_ok \in BOOLEAN :
       LET filtered == Filtered(names, Packages \ os_installed)
           u == update_os_package_list(FALSE, metadata_stale, update_ok)
           op == Operation("update_and_install_os_packages", FALSE, <<>>,
                           FALSE)
       IN  IF Len(filtered) = 0
           THEN /\ update_ok /\ install_ok
                /\ pk_op' = op
                /\ UNCHANGED <<metadata_stale, os_installed>>
           ELSE IF u.raised
           THEN /\ install_ok
                /\ pk_op' = [op EXCEPT !.issued = u.issued, !.raised = TRUE]
                /\ metadata_stale' = u.stale
                /\ UNCHANGED os_installed
           ELSE /\ u.issued = <<>> => update_ok
                /\ pk_op' = [op EXCEPT
                               !.issued = u.issued \o
                                 <<[cmd |-> "install", packages |-> filtered,
                                    stale |-> u.stale]>>,
                               !.raised = ~install_ok]
                /\ metadata_stale' = u.stale
                /\ os_installed' = IF install_ok
                                   THEN os_installed \cup Elements(filtered)
                                   ELSE os_installed
  /\ UNCHANGED <<package_names, package_name_set, requested, os_outdated>>
  /\ UNCHANGED notPk

NextPackages ==
  \/ AddPackages
  \/ AddPackagesIfMissing
  \/ AddPackageIfCmdMissing
  \/ AddPackageIfOutdated
  \/ NewPackageList
  \/ InstallAll
  \/ UpgradeAll
  \/ UninstallAll
  \/ UpdateOsPackageList
  \/ UpdateAndInstallOsPackages

\* the operations on the apt sources, the keyring and the package metadata
InitSources ==
  /\ sources_file \in {"absent"} \cup SourcesContents
  /\ keyring_file \in {"absent"} \cup KeyringContents

NextSources ==
  \/ UpdateAptSourcesList
  \/ InstallAptSourcesListIfMissing
  \/ UpdateGpgKeyring
  \/ InstallGpgKeyringIfMissing
  \/ UpdateOsPackageList

(***************************************************************************)
(* Properties of PackageList and the apt helpers.                          *)
(***************************************************************************)
\* a list without its repetitions, each name where it first occurs
RECURSIVE FirstInsertions(_)
FirstInsertions(names) ==
  IF names = <<>> THEN <<>>
  ELSE LET front == FirstInsertions(SubSeq(names, 1, Len(names) - 1))
           last == names[Len(names)]
       IN  IF last \in Elements(front) THEN front ELSE Append(front, last)

\* the place of a package name in the sorted order of names
Rank(p) == CHOOSE i \in DOMAIN SortedPackages : SortedPackages[i] = p

\* a list of package names in strictly ascending order
Ascending(names) ==
  \A i, j \in DOMAIN names : i < j => Rank(names[i]) < Rank(names[j])

\* C12: after any sequence of add operations the list holds each added name
\* exactly once, its length is the number of distinct names added, and
\* iterating it yields the names in the order of their first insertion.
C12_IterationInInsertionOrder ==
  /\ package_names = FirstInsertions(requested)
  /\ PackageList_len(package_names) = Cardinality(Elements(requested))
  /\ PackageList_iter(package_names) = FirstInsertions(requested)

\* What PackageList does where C12 fails: the list itself holds each added
\* name once, in the order of first insertion, its length is the number of
\* distinct names, and the set mirrors it; iteration yields the same names in
\* ascending (sorted) order.
C12_ListInInsertionOrder ==
  /\ package_names = FirstInsertions(requested)
  /\ package_name_set = Elements(requested)
  /\ PackageList_len(package_names) = Cardinality(Elements(requested))
  /\ Elements(PackageList_iter(package_names)) = Elements(requested)
  /\ Len(PackageList_iter(package_names)) = Len(package_names)
  /\ Ascending(PackageList_iter(package_names))

\* C12 witness: add_packages(['b', 'a']) on an empty list leaves the list
\* [b, a], and iteration yields [a, b].
C12_Witness ==
  /\ pk_op.kind = "add_packages"
  /\ requested = <<"b", "a">>
  /\ package_names = <<"b", "a">>
  /\ PackageList_iter(package_names) = <<"a", "b">>

\* the example of C12: add(['a', 'b', 'a']) gives length 2 and [a, b]
C12_Example ==
  /\ requested = <<"a", "b", "a">>
  /\ PackageList_len(package_names) = 2
  /\ PackageList_iter(package_names) = <<"a", "b">>

\* the last operation was install_all, upgrade_all or uninstall_all
BatchOperation ==
  pk_op.kind \in {"install_all", "upgrade_all", "uninstall_all"}

\* the apt-get subcommand of a batch operation
BatchCommand ==
  CASE pk_op.kind = "install_all" -> "install"
    [] pk_op.kind = "upgrade_all" -> "upgrade"
    [] pk_op.kind = "uninstall_all" -> "remove"

\* the packages that needed the action when the last operation was called:
\* a missing one needs installing, an installed one can be removed, a missing
\* or outdated one needs upgrading
NeedingAction ==
  CASE pk_op.kind = "install_all" -> Packages \ pk_op.installed_before
    [] pk_op.kind = "upgrade_all" ->
         (Packages \ pk_op.installed_before) \cup pk_op.outdated_before
    [] pk_op.kind = "uninstall_all" -> pk_op.installed_before

\* C13: install_all, upgrade_all and uninstall_all, called with a listed
\* package that needs the action, each issue exactly one package-manager
\* invocation, whose package arguments are exactly the listed packages that
\* need the action when the operation is called.
C13_OneBatchedInvocation ==
  (BatchOperation /\ Filtered(pk_op.listed, NeedingAction) # <<>>) =>
    /\ Len(pk_op.issued) = 1
    /\ pk_op.issued[1].cmd = BatchCommand
    /\ pk_op.issued[1].packages = Filtered(pk_op.listed, NeedingAction)

\* the package arguments the code gives the invocation of the last batch
\* operation: install_all and uninstall_all query the installed packages at
\* the call, upgrade_all passes the whole list
BatchArguments ==
  IF pk_op.kind = "upgrade_all" THEN pk_op.listed
  ELSE Filtered(pk_op.listed, NeedingAction)

\* C13 as amended: each of the three issues at most one invocation, never
\* one per package, and none when there is no package to pass; install_all
\* passes exactly the listed packages that are not installed at the call,
\* uninstall_all exactly those that are, both in list order and queried at
\* the call; upgrade_all passes every listed package and queries nothing.
C13_AtMostOneBatchedInvocation ==
  BatchOperation =>
    IF BatchArguments = <<>> THEN pk_op.issued = <<>>
    ELSE /\ Len(pk_op.issued) = 1
         /\ pk_op.issued[1].cmd = BatchCommand
         /\ pk_op.issued[1].packages = BatchArguments

\* C13 witness: install_all on a list of two packages, one of which is
\* installed by now, issued one invocation for the other one.
C13_Witness ==
  /\ pk_op.kind = "install_all"
  /\ pk_op.listed = <<"b", "a">>
  /\ pk_op.installed_before = {"a"}
  /\ Len(pk_op.issued) = 1
  /\ pk_op.issued[1].packages = <<"b">>

\* upgrade_all passed a package that was installed and not outdated
C13_UpgradeNotRequeried ==
  /\ pk_op.kind = "upgrade_all"
  /\ Len(pk_op.issued) = 1
  /\ \E i \in DOMAIN pk_op.listed :
       /\ pk_op.listed[i] \in pk_op.installed_before
       /\ pk_op.listed[i] \notin pk_op.outdated_before

\* the apt-get install and apt-get upgrade invocations of the last operation
InstallsAndUpgrades ==
  {i \in DOMAIN pk_op.issued : pk_op.issued[i].cmd \in {"install", "upgrade"}}

\* C15: every apt-get install or upgrade issued through install_all or
\* upgrade_all (install_os_packages, upgrade_os_packages) runs with package
\* metadata that is not marked stale: the flag was looked at, and stale
\* metadata refreshed with apt-get update, before it.
C15_FreshMetadataBeforeInstall ==
  pk_op.kind \in {"install_all", "upgrade_all"} =>
    \A i \in InstallsAndUpgrades :
      /\ ~pk_op.issued[i].stale
      /\ pk_op.stale_before =>
           \E j \in 1..(i - 1) : pk_op.issued[j].cmd = "update"

\* C15 witness: install_all ran apt-get install while the flag said stale,
\* and no apt-get update came before it.
C15_Witness ==
  /\ pk_op.kind = "install_all"
  /\ pk_op.stale_before
  /\ Len(pk_op.issued) = 1
  /\ pk_op.issued[1].cmd = "install"
  /\ pk_op.issued[1].stale
  /\ metadata_stale

\* What holds in place of C15: only update_and_install_os_packages looks at
\* the flag; its apt-get install runs with the flag cleared, after an
\* apt-get update when the flag was set.
C15_UpdateAndInstallRefreshes ==
  pk_op.kind = "update_and_install_os_packages" =>
    \A i \in InstallsAndUpgrades :
      /\ ~pk_op.issued[i].stale
      /\ pk_op.stale_before =>
           \E j \in 1..(i - 1) : pk_op.issued[j].cmd = "update"

\* the apt-get update invocations of the last operation that succeeded: a
\* raising operation stops at the command that failed, its last one
SucceededUpdates ==
  {i \in DOMAIN pk_op.issued :
     /\ pk_op.issued[i].cmd = "update"
     /\ ~(pk_op.raised /\ i = Len(pk_op.issued))}

\* the flag starts stale
StartsStale == pk_ops = 0 => metadata_stale

\* update_os_package_list runs apt-get update iff the flag is stale or force
\* is set
UpdateIffStaleOrForce ==
  pk_op.kind = "update_os_package_list" =>
    ((pk_op.issued # <<>>) <=> (pk_op.stale_before \/ pk_op.force))

\* the flag becomes non-stale only after an apt-get update that succeeded,
\* and is stale after an apt-get update that raised
ClearedOnlyBySuccess ==
  /\ (pk_op.stale_before /\ ~metadata_stale) => SucceededUpdates # {}
  /\ \A i \in DOMAIN pk_op.issued :
       (pk_op.issued[i].cmd = "update" /\ i \notin SucceededUpdates)
         => metadata_stale

\* the last operation found the flag non-stale and left it stale
BecameStale == ~pk_op.stale_before /\ metadata_stale

\* update_os_package_list(force=True) whose apt-get update raised
ForcedUpdateRaised ==
  /\ pk_op.kind = "update_os_package_list"
  /\ pk_op.force
  /\ pk_op.raised

\* C16 as stated: the flag starts stale; update_os_package_list runs apt-get
\* update iff the flag is stale or force is set; the flag is cleared only by
\* an apt-get update that succeeded; and a non-stale flag becomes stale again
\* only through invalidate_os_package_list.
C16_StalenessProtocol ==
  /\ StartsStale
  /\ UpdateIffStaleOrForce
  /\ ClearedOnlyBySuccess
  /\ BecameStale => pk_op.invalidated

\* C16 amended: as stated, except that a non-stale flag also becomes stale
\* again when a forced update_os_package_list sets it and its apt-get update
\* raises.
C16_StalenessProtocolWithForce ==
  /\ StartsStale
  /\ UpdateIffStaleOrForce
  /\ ClearedOnlyBySuccess
  /\ BecameStale => (pk_op.invalidated \/ ForcedUpdateRaised)

\* C16 witness: a forced update of fresh metadata raised and left the flag
\* stale, with no apt source changed.
C16_Witness ==
  /\ ForcedUpdateRaised
  /\ BecameStale
  /\ ~pk_op.invalidated
  /\ Len(pk_op.issued) = 1

\* the flag was stale, apt-get update ran and succeeded, the flag is cleared
C16_Refreshed ==
  /\ pk_op.kind = "update_os_package_list"
  /\ ~pk_op.force
  /\ pk_op.stale_before
  /\ SucceededUpdates = {1}
  /\ ~metadata_stale

\* a changed apt source invalidated fresh metadata and the refresh raised
C16_Invalidated ==
  /\ pk_op.kind = "update_apt_sources_list"
  /\ pk_op.invalidated
  /\ BecameStale

\* the last operation replaced the apt sources list file
SourcesReplaced == sources_file # pk_op.sources_before

\* the positions of the last operation's unix_mv
Moves == {i \in DOMAIN pk_op.issued : pk_op.issued[i].cmd = "mv"}

\* the last operation ran a successful apt-get update after its unix_mv
RefreshedAfterMove ==
  \E i \in Moves : \E j \in SucceededUpdates : j > i

\* C30: update_apt_sources_list marks the package metadata stale before it
\* moves the new sources file into place and refreshes afterwards: a step
\* that replaces the sources file moves it while the flag is stale, and
\* leaves the flag stale unless an apt-get update succeeded after the move;
\* and no step clears the flag without a successful apt-get update.  Hence
\* no state has a changed sources file, a non-stale flag and no successful
\* apt-get update since the change.
C30_StaleUntilRefreshed ==
  /\ [][sources_file' # sources_file =>
          /\ SourcesReplaced'
          /\ pk_op'.invalidated
          /\ Moves' # {}
          /\ \A i \in Moves' : pk_op'.issued[i].stale
          /\ ~metadata_stale' => RefreshedAfterMove']_vars
  /\ [][(metadata_stale /\ ~metadata_stale') => SucceededUpdates' # {}]_vars
  /\ [](pk_op.raised /\ pk_op.invalidated => metadata_stale)

\* C30 witness: the sources file was replaced while the metadata was fresh,
\* the apt-get update after the move raised, and the flag is stale.
C30_Witness ==
  /\ pk_op.kind = "update_apt_sources_list"
  /\ SourcesReplaced
  /\ ~pk_op.stale_before
  /\ pk_op.raised
  /\ Len(pk_op.issued) = 3
  /\ metadata_stale

\* the last operation ran no privileged command and left the destination
\* files and the flag as they were
NothingDone ==
  /\ pk_op.issued = <<>>
  /\ sources_file = pk_op.sources_before
  /\ keyring_file = pk_op.keyring_before
  /\ metadata_stale = pk_op.stale_before

\* the kinds of the operations that write a destination file
UpdateKinds == {"update_apt_sources_list", "update_gpg_keyring"}
IfMissingKinds ==
  {"install_apt_sources_list_if_missing", "install_gpg_keyring_if_missing"}

\* the destination file of the last operation, as it was before it
DestBefore ==
  IF pk_op.kind \in {"update_apt_sources_list",
                     "install_apt_sources_list_if_missing"}
  THEN pk_op.sources_before
  ELSE pk_op.keyring_before

\* C25: update_gpg_keyring and update_apt_sources_list do nothing when the
\* destination already holds the wanted content (no chown, no mv, no
\* apt-get update, destination and staleness flag as before), so a call
\* repeated with the same inputs after a successful call changes nothing;
\* and the install_*_if_missing variants never touch an existing
\* destination, whatever it holds.
C25_UnchangedContentIsNoOp ==
  /\ [](pk_op.kind \in UpdateKinds /\ DestBefore = pk_op.wanted
          => NothingDone)
  /\ [](pk_op.kind \in IfMissingKinds /\ os_path_exists(DestBefore)
          => NothingDone)
  /\ [][(/\ pk_op.kind \in UpdateKinds
         /\ ~pk_op.raised
         /\ pk_op'.kind = pk_op.kind
         /\ pk_op'.wanted = pk_op.wanted) => NothingDone']_vars

\* C25 witness: update_gpg_keyring installed a keyring and the call
\* repeated with the same download did nothing.
C25_Witness ==
  /\ pk_ops = 2
  /\ pk_op.kind = "update_gpg_keyring"
  /\ ~pk_op.raised
  /\ pk_op.keyring_before = pk_op.wanted
  /\ keyring_file = pk_op.wanted
  /\ NothingDone

\* install_apt_sources_list_if_missing found an outdated file and left it
C25_OutdatedLeft ==
  /\ pk_op.kind = "install_apt_sources_list_if_missing"
  /\ sources_file \notin {"absent", pk_op.wanted}
  /\ NothingDone

\* install_all, upgrade_all or uninstall_all was the last operation
ExecuteOperation ==
  pk_op.kind \in {"install_all", "upgrade_all", "uninstall_all"}

\* C29: after the constructor and any sequence of add and execute
\* operations, the name list has no duplicates, its elements are the
\* membership set, len() is the size of that set, and an execute operation
\* leaves the list as it was.
C29_RepresentationInvariant ==
  /\ \A i, j \in DOMAIN package_names :
       package_names[i] = package_names[j] => i = j
  /\ Elements(package_names) = package_name_set
  /\ PackageList_len(package_names) = Cardinality(package_name_set)
  /\ ExecuteOperation => package_names = pk_op.listed

\* C29 witness: names were asked for more than once, the list holds two
\* names, and install_all ran apt-get for it.
C29_Witness ==
  /\ pk_op.kind = "install_all"
  /\ pk_op.issued # <<>>
  /\ Len(package_names) = 2
  /\ Len(requested) > 2

(***************************************************************************)
(* install_pulumi on any platform: the order of its network requests, its  *)
(* platform check and its file-system effects.                             *)
(***************************************************************************)
PlatformSystems == {"Linux", "Darwin", "Windows"}

PlatformMachines == {"x86_64", "aarch64", "arm64", "i686"}

\* the two requests the installer makes, and its file-system effects
GetLatestVersion == "GET pulumi_latest_version_url"

GetTarball == "GET tarball"

MakeTempDir == "TemporaryDirectory"

RemoveTempDir == "TemporaryDirectory removed"

InstallFiles == "install"

\* get_pulumi_tarball_url, lines 85-96: the platform checks
platform_is_supported(system, machine) ==
  /\ system \in {"Linux", "Darwin"}
  /\ machine \in {"aarch64", "arm64", "x86_64"}

\* get_pulumi_latest_version under run_once: the request is made on the
\* first call only
get_pulumi_latest_version(cached) ==
  IF cached THEN <<>> ELSE <<GetLatestVersion>>

\* get_pulumi_tarball_url(version): the requests it makes and whether it
\* raises the unsupported-platform RuntimeError
get_pulumi_tarball_url(version, system, machine, cached) ==
  [requests |-> IF version = NoVersion
                THEN get_pulumi_latest_version(cached) ELSE <<>>,
   raised |-> ~platform_is_supported(system, machine)]

InitFetch ==
  /\ platform_system \in PlatformSystems
  /\ platform_machine \in PlatformMachines
  /\ fe_min_version \in {NoVersion, Latest} \cup ToolVersions
  /\ fe_upgrade_version \in {NoVersion, Latest} \cup ToolVersions
  /\ fe_force \in BOOLEAN
  /\ fe_old_version \in {NoVersion} \cup ToolVersions
  /\ fe_latest \in ToolVersions
  /\ fe_has_run = FALSE
  /\ fe_pc = "start"
  /\ fe_events = <<>>
  /\ fe_result = "none"

feArgs == <<platform_system, platform_machine, fe_min_version,
            fe_upgrade_version, fe_force, fe_old_version, fe_latest>>

FetchEnds(kind) ==
  /\ fe_pc' = "done"
  /\ fe_result' = kind

\* install_pulumi, lines 312-337: 'latest' as min_version is resolved with a
\* request, then the arguments are compared and the installed version probed
FetchDecide ==
  /\ fe_pc = "start"
  /\ LET asked == IF fe_min_version = Latest
                  THEN get_pulumi_latest_version(fe_has_run) ELSE <<>>
         d == install_pulumi_decide(fe_old_version # NoVersion,
                                    fe_old_version, fe_min_version,
                                    fe_upgrade_version, fe_force, fe_latest)
     IN  /\ fe_events' = fe_events \o asked
         /\ \/ \* the request raises
               /\ asked # <<>>
               /\ FetchEnds("URLError")
               /\ UNCHANGED fe_has_run
            \/ /\ fe_has_run' = (fe_has_run \/ asked # <<>>)
               /\ IF d.raised THEN FetchEnds("RuntimeError")
                  ELSE IF d.decision = "Skip" THEN FetchEnds("skipped")
                  ELSE fe_pc' = "resolve" /\ UNCHANGED fe_result
  /\ UNCHANGED feArgs
  /\ UNCHANGED notFe

\* install_pulumi, lines 339-342: no upgrade_version means the latest one
FetchResolveUpgrade ==
  /\ fe_pc = "resolve"
  /\ LET upgrade1 == pulumi_upgrade_version(fe_upgrade_version)
         min1 == pulumi_min_version(fe_min_version, fe_latest)
         asked == IF upgrade1 = NoVersion
                  THEN get_pulumi_latest_version(fe_has_run) ELSE <<>>
     IN  /\ fe_events' = fe_events \o asked
         /\ \/ \* the request raises
               /\ asked # <<>>
               /\ FetchEnds("URLError")
               /\ UNCHANGED fe_has_run
            \/ /\ fe_has_run' = (fe_has_run \/ asked # <<>>)
               /\ IF /\ upgrade1 = NoVersion
                     /\ min1 # NoVersion
                     /\ ~check_version_ge(fe_latest, min1)
                  THEN FetchEnds("RuntimeError")
                  ELSE fe_pc' = "download" /\ UNCHANGED fe_result
  /\ UNCHANGED feArgs
  /\ UNCHANGED notFe

\* download_pulumi, lines 197-200, with download_pulumi_tarball: the
\* temporary directory is made, get_pulumi_tarball_url checks the platform,
\* download_file asks for the tarball; an exception removes the temporary
\* directory on its way out
FetchTarball ==
  /\ fe_pc = "download"
  /\ LET upgrade1 == pulumi_upgrade_version(fe_upgrade_version)
         version == IF upgrade1 = NoVersion THEN fe_latest ELSE upgrade1
         u == get_pulumi_tarball_url(version, platform_system,
                                     platform_machine, fe_has_run)
     IN  IF u.raised
         THEN /\ fe_events' = fe_events \o <<MakeTempDir>> \o u.requests
                                \o <<RemoveTempDir>>
              /\ FetchEnds("UnsupportedPlatform")
         ELSE \/ \* download_file raises
                 /\ fe_events' = fe_events \o <<MakeTempDir>> \o u.requests
                                   \o <<GetTarball, RemoveTempDir>>
                 /\ FetchEnds("URLError")
              \/ /\ fe_events' = fe_events \o <<MakeTempDir>> \o u.requests
                                   \o <<GetTarball>>
                 /\ fe_pc' = "stage"
                 /\ UNCHANGED fe_result
  /\ UNCHANGED <<feArgs, fe_has_run>>
  /\ UNCHANGED notFe

\* download_pulumi, lines 201-242: the tarball is unpacked and put in place,
\* or an exception leaves; the temporary directory is removed either way
FetchInstall ==
  /\ fe_pc = "stage"
  /\ fe_events' = fe_events \o <<InstallFiles, RemoveTempDir>>
  /\ \/ FetchEnds("success")
     \/ FetchEnds("RuntimeError")
  /\ UNCHANGED <<feArgs, fe_has_run>>
  /\ UNCHANGED notFe

NextFetch ==
  \/ FetchDecide
  \/ FetchResolveUpgrade
  \/ FetchTarball
  \/ FetchInstall

\* the events of `kinds` so far
EventsOf(kinds) == {i \in DOMAIN fe_events : fe_events[i] \in kinds}

UnsupportedPlatform == ~platform_is_supported(platform_system, platform_machine)

\* C14: on an unsupported platform the installer makes no network request,
\* the one that resolves 'latest' included, and has no install side effect;
\* when it gets to fetching, it ends with the unsupported-platform error.
C14_UnsupportedBeforeAnyRequest ==
  UnsupportedPlatform =>
    /\ EventsOf({GetLatestVersion, GetTarball, InstallFiles}) = {}
    /\ fe_pc = "done" =>
         fe_result \in {"UnsupportedPlatform", "skipped", "RuntimeError"}

\* C14 witness: on an unsupported platform install_pulumi asked for the
\* latest version and only then raised the unsupported-platform error.
C14_Witness ==
  /\ UnsupportedPlatform
  /\ fe_result = "UnsupportedPlatform"
  /\ EventsOf({GetLatestVersion}) # {}

\* What holds in place of C14: on an unsupported platform the tarball is
\* never asked for and nothing is installed, and an install_pulumi that gets
\* to download_pulumi ends with the unsupported-platform error.
C14_UnsupportedBeforeTarball ==
  UnsupportedPlatform =>
    /\ EventsOf({GetTarball, InstallFiles}) = {}
    /\ fe_pc = "done" =>
         fe_result \in {"UnsupportedPlatform", "skipped", "RuntimeError",
                        "URLError"}
    /\ EventsOf({MakeTempDir}) # {} =>
         /\ fe_result = "UnsupportedPlatform"
         /\ EventsOf({RemoveTempDir}) # {}

\* the requested upgrade version is above the latest published version
UpgradeAboveLatest ==
  /\ fe_upgrade_version \in ToolVersions
  /\ ~check_version_ge(fe_latest, fe_upgrade_version)

\* C21: install_pulumi (like install_docker_compose) raises RuntimeError when
\* the requested upgrade version is greater than the latest published
\* version, without installing anything: an invocation that does not skip
\* and has no min_version to compare with does not get to the download and
\* ends with RuntimeError, on a supported platform too.
C21_UpgradeAboveLatestRaises ==
  (/\ UpgradeAboveLatest
   /\ fe_min_version = NoVersion
   /\ ~UnsupportedPlatform
   /\ fe_result # "skipped") =>
    /\ EventsOf({GetTarball, InstallFiles}) = {}
    /\ fe_pc = "done" => fe_result = "RuntimeError"

\* C21 witness: pulumi is not installed, version 20.0.0 is asked for while
\* 2.5.0 is the latest, the latest version is never asked for, the tarball
\* of 20.0.0 is, and the call ends with the error of that request.
C21_Witness ==
  /\ UpgradeAboveLatest
  /\ fe_old_version = NoVersion
  /\ fe_min_version = NoVersion
  /\ ~UnsupportedPlatform
  /\ fe_latest = Ver(<<2, 5, 0>>)
  /\ fe_pc = "done"
  /\ fe_result = "URLError"
  /\ EventsOf({GetLatestVersion}) = {}
  /\ EventsOf({GetTarball}) # {}
  /\ EventsOf({InstallFiles}) = {}

\* the request for the latest version plays no part when an upgrade version
\* is given and min_version is not 'latest'
C21_LatestNeverConsulted ==
  (fe_upgrade_version \in ToolVersions /\ fe_min_version # Latest) =>
    EventsOf({GetLatestVersion}) = {}

(***************************************************************************)
(* install_aws_cli and install_aws_sam_cli.  The output of `--version` is  *)
(* the sequence of its space-separated words, a word the sequence of its   *)
(* '/'-separated parts, and a part either a version or some other text.    *)
(***************************************************************************)
Text(s) == [kind |-> "text", text |-> s]

\* the command is not in PATH: there is no output, not even an empty one
NotInPath == <<>>

MIN_AWS_CLI_VERSION == Ver(<<2, 4, 23>>)

MIN_aws_sam_cli_VERSION == Ver(<<1, 6, 0>>)

\* outputs of `aws --version`: "aws-cli/2.4.23 Python/3.8.8",
\* "aws-cli/2.4.9 Python/3.8.8", "aws-cli/", "aws-cli", "aws/2.4.23",
\* "aws-cli/unknown Python/3.8.8" and ""
AwsCliOutputs ==
  {<<<<Text("aws-cli"), Ver(<<2, 4, 23>>)>>,
     <<Text("Python"), Ver(<<3, 8, 8>>)>>>>,
   <<<<Text("aws-cli"), Ver(<<2, 4, 9>>)>>,
     <<Text("Python"), Ver(<<3, 8, 8>>)>>>>,
   <<<<Text("aws-cli"), Text("")>>>>,
   <<<<Text("aws-cli")>>>>,
   <<<<Text("aws"), Ver(<<2, 4, 23>>)>>>>,
   <<<<Text("aws-cli"), Text("unknown")>>,
     <<Text("Python"), Ver(<<3, 8, 8>>)>>>>,
   <<<<Text("")>>>>}

\* outputs of `sam --version`: "SAM CLI, version 1.6.0",
\* "SAM CLI, version 1.2.0", "SAM CLI, version 1.6.0 (beta)",
\* "Traceback error", "python/3 missing" and ""
SamCliOutputs ==
  {<<<<Text("SAM")>>, <<Text("CLI,")>>, <<Text("version")>>,
     <<Ver(<<1, 6, 0>>)>>>>,
   <<<<Text("SAM")>>, <<Text("CLI,")>>, <<Text("version")>>,
     <<Ver(<<1, 2, 0>>)>>>>,
   <<<<Text("SAM")>>, <<Text("CLI,")>>, <<Text("version")>>,
     <<Ver(<<1, 6, 0>>)>>, <<Text("(beta)")>>>>,
   <<<<Text("Traceback")>>, <<Text("error")>>>>,
   <<<<Text("python"), Ver(<<3>>)>>, <<Text("missing")>>>>,
   <<<<Text("")>>>>}

VersionOutputs(t) == IF t = "aws" THEN AwsCliOutputs ELSE SamCliOutputs

AwsMinVersion(t) ==
  IF t = "aws" THEN MIN_AWS_CLI_VERSION ELSE MIN_aws_sam_cli_VERSION

\* a word as one string: its only part, or a text holding '/'
Word(parts) ==
  IF Len(parts) = 1 THEN parts[1] ELSE [kind |-> "path", parts |-> parts]

\* get_aws_cli_version: the first word must be aws-cli/<something>
get_aws_cli_version(long_result) ==
  LET sl_parts == long_result[1]
  IN  IF \/ Len(sl_parts) # 2
         \/ sl_parts[1] # Text("aws-cli")
         \/ sl_parts[2] = Text("")
      THEN [raised |-> TRUE, version |-> NoVersion]
      ELSE [raised |-> FALSE, version |-> sl_parts[2]]

\* get_aws_sam_cli_version: the last word, whatever it is
get_aws_sam_cli_version(long_result) ==
  [raised |-> FALSE, version |-> Word(long_result[Len(long_result)])]

get_version(t, long_result) ==
  IF t = "aws" THEN get_aws_cli_version(long_result)
  ELSE get_aws_sam_cli_version(long_result)

\* packaging's version.parse accepts the string
version_is_valid(v) == v.kind = "version"

\* check_version_ge(version, minimum) on any string: the outcomes it can
\* have.  For a string that is no version, version.parse raises
\* InvalidVersion, or (packaging before 22) gives a LegacyVersion, which is
\* below every version.
check_version_ge_outcomes(v, minimum) ==
  IF version_is_valid(v)
  THEN {IF check_version_ge(v, minimum) THEN "ge" ELSE "lt"}
  ELSE {"InvalidVersion", "lt"}

InitAws ==
  /\ aw_tool \in {"aws", "sam"}
  /\ aw_force \in BOOLEAN
  /\ aw_output \in VersionOutputs(aw_tool) \cup {NotInPath}
  /\ aw_version = NoVersion
  /\ aw_final \in {"absent", "old"}
  /\ aw_link \in {"absent", "old"}
  /\ aw_pre_final = aw_final
  /\ aw_pre_link = aw_link
  /\ aw_tdir = "absent"
  /\ aw_pc = "start"
  /\ aw_started = FALSE
  /\ aw_commit_entered = FALSE
  /\ aw_result = "none"

awArgs == <<aw_tool, aw_force, aw_pre_final, aw_pre_link>>

AwsEnds(kind) ==
  /\ aw_pc' = "done"
  /\ aw_result' = kind

\* need_client_install is True: the installer goes on to install
AwsStarts ==
  /\ aw_pc' = "stage"
  /\ aw_started' = TRUE
  /\ UNCHANGED aw_result

\* install_aws_cli, lines 88-102, and install_aws_sam_cli, lines 84-98: the
\* probe and the branch on its result
ProbeAws ==
  /\ aw_pc = "start"
  /\ IF aw_output = NotInPath
     THEN AwsStarts /\ UNCHANGED aw_version
     ELSE LET got == get_version(aw_tool, aw_output)
          IN  /\ aw_version' = got.version
              /\ IF got.raised
                 THEN AwsEnds("MalformedVersion") /\ UNCHANGED aw_started
                 ELSE IF aw_force THEN AwsStarts
                 ELSE \E o \in check_version_ge_outcomes(
                                 got.version, AwsMinVersion(aw_tool)) :
                        IF o = "InvalidVersion"
                        THEN AwsEnds("InvalidVersion") /\ UNCHANGED aw_started
                        ELSE IF o = "ge"
                        THEN AwsEnds("skipped") /\ UNCHANGED aw_started
                        ELSE AwsStarts
  /\ UNCHANGED <<awArgs, aw_output, aw_final, aw_link, aw_tdir,
                 aw_commit_entered>>
  /\ UNCHANGED notAw

\* install_aws_cli, lines 107-112: download and unzip inside the
\* TemporaryDirectory, which an exception removes on its way out
AwsCliDownload ==
  /\ aw_tool = "aws"
  /\ aw_pc = "stage"
  /\ \E failing \in {"none", "download_url_file", "unzip"} :
       IF failing = "none"
       THEN /\ aw_tdir' = "unzipped"
            /\ aw_pc' = "install"
            /\ UNCHANGED aw_result
       ELSE /\ aw_tdir' = "removed"
            /\ AwsEnds(IF failing = "unzip" THEN "CalledProcessError"
                       ELSE "DownloadError")
  /\ UNCHANGED <<awArgs, aw_output, aw_version, aw_final, aw_link,
                 aw_started, aw_commit_entered>>
  /\ UNCHANGED notAw

\* install_aws_cli, lines 113-118: ./aws/install writes ~/.local/aws-cli and
\* the links in ~/.local/bin; when it fails it can have written a part
AwsCliRunInstall ==
  /\ aw_tool = "aws"
  /\ aw_pc = "install"
  /\ aw_commit_entered' = TRUE
  /\ aw_tdir' = "removed"
  /\ \/ /\ aw_final' = "new"
        /\ aw_link' = "new"
        /\ aw_pc' = "verify"
        /\ UNCHANGED aw_result
     \/ /\ aw_final' \in {aw_final, "partial"}
        /\ aw_link' = aw_link
        /\ AwsEnds("CalledProcessError")
  /\ UNCHANGED <<awArgs, aw_output, aw_version, aw_started>>
  /\ UNCHANGED notAw

\* install_aws_sam_cli, lines 111-113: the install directory is removed and
\* made again, empty
SamClearInstallDir ==
  /\ aw_tool = "sam"
  /\ aw_pc = "stage"
  /\ aw_final' = "empty"
  /\ aw_pc' = "build"
  /\ UNCHANGED <<awArgs, aw_output, aw_version, aw_link, aw_tdir, aw_started,
                 aw_commit_entered, aw_result>>
  /\ UNCHANGED notAw

\* install_aws_sam_cli, lines 114-116: the virtualenv is built and
\* aws-sam-cli installed into it, inside the install directory
SamBuild ==
  /\ aw_tool = "sam"
  /\ aw_pc = "build"
  /\ \E failing \in {"none", "venv", "pip install pip",
                     "pip install aws-sam-cli"} :
       IF failing = "none"
       THEN /\ aw_final' = "new"
            /\ aw_pc' = "link"
            /\ UNCHANGED aw_result
       ELSE /\ aw_final' = IF failing = "venv" THEN "empty" ELSE "venv"
            /\ AwsEnds("CalledProcessError")
  /\ UNCHANGED <<awArgs, aw_output, aw_version, aw_link, aw_tdir, aw_started,
                 aw_commit_entered>>
  /\ UNCHANGED notAw

\* install_aws_sam_cli, lines 118-120: ~/.local/bin/sam is removed and made
\* again as a link into the virtualenv
SamLink ==
  /\ aw_tool = "sam"
  /\ aw_pc = "link"
  /\ aw_commit_entered' = TRUE
  /\ aw_link' = "new"
  /\ aw_pc' = "verify"
  /\ UNCHANGED <<awArgs, aw_output, aw_version, aw_final, aw_tdir,
                 aw_started, aw_result>>
  /\ UNCHANGED notAw

\* the checks after the install, the same in both installers: the command
\* is in PATH, its version parses and meets the minimum, and the command
\* found is the one in ~/.local/bin
VerifyAws ==
  /\ aw_pc = "verify"
  /\ \E post \in VersionOutputs(aw_tool) \cup {NotInPath},
        prog_is_local \in BOOLEAN :
       /\ aw_output' = post
       /\ IF post = NotInPath
          THEN /\ prog_is_local
               /\ AwsEnds("ProjectInitError")
               /\ UNCHANGED aw_version
          ELSE LET got == get_version(aw_tool, post)
               IN  /\ aw_version' = got.version
                   /\ IF got.raised
                      THEN prog_is_local /\ AwsEnds("MalformedVersion")
                      ELSE \E o \in check_version_ge_outcomes(
                                      got.version, AwsMinVersion(aw_tool)) :
                             IF o = "InvalidVersion"
                             THEN prog_is_local /\ AwsEnds("InvalidVersion")
                             ELSE IF o = "lt"
                             THEN prog_is_local /\ AwsEnds("ProjectInitError")
                             ELSE IF prog_is_local THEN AwsEnds("success")
                             ELSE AwsEnds("ProjectInitError")
  /\ UNCHANGED <<awArgs, aw_final, aw_link, aw_tdir, aw_started,
                 aw_commit_entered>>
  /\ UNCHANGED notAw

NextAws ==
  \/ ProbeAws
  \/ AwsCliDownload
  \/ AwsCliRunInstall
  \/ SamClearInstallDir
  \/ SamBuild
  \/ SamLink
  \/ VerifyAws

\* the final installation path and the command in ~/.local/bin are as they
\* were when the installer was called
FinalPathUntouched ==
  /\ aw_final = aw_pre_final
  /\ aw_link = aw_pre_link

\* C17: until the commit step begins the installer leaves the final
\* installation path exactly as it was, so a failure while downloading,
\* extracting or building leaves the previously installed tool intact.
C17_StageLeavesFinalPath ==
  ~aw_commit_entered => FinalPathUntouched

\* C17 witness: install_aws_sam_cli failed while building, before anything
\* was put in place, and the tool that was installed is gone.
C17_Witness ==
  /\ aw_tool = "sam"
  /\ aw_pc = "done"
  /\ aw_result = "CalledProcessError"
  /\ ~aw_commit_entered
  /\ aw_pre_final = "old"
  /\ aw_final \in {"empty", "venv"}

\* What holds in place of C17 for install_aws_cli: its download and unzip
\* happen in the temporary directory and leave the final path alone.
C17_AwsCliStageLeavesFinalPath ==
  (aw_tool = "aws" /\ ~aw_commit_entered) => FinalPathUntouched

\* What holds in place of C17 for download_pulumi: no step before the
\* removal of a stale bin.bak changes <dir>/bin or <dir>/bin.bak.
C17_PulumiStageLeavesBin ==
  [][~commit_entered' => UNCHANGED <<bin_dir, backup_bin_dir>>]_vars

\* install_aws_cli failed while unzipping: the installed tool is as it was
C17_AwsCliFailedStage ==
  /\ aw_tool = "aws"
  /\ aw_result = "CalledProcessError"
  /\ ~aw_commit_entered
  /\ aw_pre_final = "old"
  /\ aw_tdir = "removed"

\* the output of `--version` has the form the tool prints: aws-cli/<version>
\* as first word, or the words SAM CLI, version <version>
WellFormed(t, long_result) ==
  IF t = "aws"
  THEN /\ Len(long_result[1]) = 2
       /\ long_result[1][1] = Text("aws-cli")
       /\ version_is_valid(long_result[1][2])
  ELSE /\ Len(long_result) = 4
       /\ long_result[1] = <<Text("SAM")>>
       /\ long_result[2] = <<Text("CLI,")>>
       /\ long_result[3] = <<Text("version")>>
       /\ Len(long_result[4]) = 1
       /\ version_is_valid(long_result[4][1])

\* the installed tool's version output cannot be parsed
UnparsableProbe ==
  /\ aw_output # NotInPath
  /\ ~WellFormed(aw_tool, aw_output)

\* C19: when the installed tool's version output cannot be parsed, the
\* installer ends with the malformed-version error and starts no install or
\* upgrade.
C19_UnparsableProbeIsFatal ==
  (UnparsableProbe /\ aw_pc # "start" /\ ~aw_commit_entered) =>
    /\ aw_pc = "done"
    /\ aw_result = "MalformedVersion"

\* C19 witness: `sam --version` printed something else than a version,
\* force was given, and install_aws_sam_cli went on to install.
C19_Witness ==
  /\ aw_tool = "sam"
  /\ aw_force
  /\ ~aw_commit_entered
  /\ UnparsableProbe
  /\ aw_started
  /\ ~version_is_valid(aw_version)

\* What holds in place of C19: install_aws_cli ends with the
\* malformed-version error when the first word of the output is not
\* aws-cli/<something>, and an unparsable probe never counts as a tool that
\* meets the minimum version.
C19_AwsCliPrefixIsChecked ==
  /\ ( /\ aw_tool = "aws"
       /\ aw_pc # "start"
       /\ ~aw_commit_entered
       /\ aw_output # NotInPath
       /\ get_aws_cli_version(aw_output).raised )
       => (aw_pc = "done" /\ aw_result = "MalformedVersion" /\ ~aw_started)
  /\ (UnparsableProbe /\ ~aw_started) => aw_result # "skipped"

(***************************************************************************)
(* download_docker_compose: the file is fetched into <dest>.tmp, made      *)
(* executable and moved onto <dest>.  A release tag is the record of the   *)
(* version with the flag `v` for a leading 'v'.                            *)
(***************************************************************************)
Tag(version, v) == [kind |-> "tag", version |-> version, v |-> v]

\* the values of the argument version: None, "2.4.1" and "v2.4.1"
ComposeVersions ==
  {NoVersion, Tag(Ver(<<2, 4, 1>>), FALSE), Tag(Ver(<<2, 4, 1>>), TRUE)}

\* get_docker_compose_latest_version: the tag of the latest release with a
\* leading 'v' removed
get_docker_compose_latest_version(release_tag) ==
  [release_tag EXCEPT !.v = FALSE]

\* `if not version_tag.startswith('v'): version_tag = 'v' + version_tag`
version_tag_of(version) == [version EXCEPT !.v = TRUE]

InitCompose ==
  /\ dc_version \in ComposeVersions
  /\ dc_version_tag = NoVersion
  /\ dc_dirname \in {"absent", "present"}
  /\ dc_result \in IF dc_dirname = "present" THEN {"absent", "old"}
                   ELSE {"absent"}
  /\ dc_temp_file = "absent"
  /\ dc_pc = "start"
  /\ dc_outcome = "none"
  /\ dc_calls = 1

ComposeEnds(kind) ==
  /\ dc_pc' = "done"
  /\ dc_outcome' = kind

\* lines 66-70: no version means the latest release, asked of GitHub
ComposeResolveVersion ==
  /\ dc_pc = "start"
  /\ IF dc_version = NoVersion
     THEN \/ \E release_tag \in ComposeVersions \ {NoVersion} :
               /\ dc_version_tag' = version_tag_of(
                    get_docker_compose_latest_version(release_tag))
               /\ dc_pc' = "makedirs"
               /\ UNCHANGED dc_outcome
          \/ \* the request raises
             /\ ComposeEnds("URLError")
             /\ UNCHANGED dc_version_tag
     ELSE /\ dc_version_tag' = version_tag_of(dc_version)
          /\ dc_pc' = "makedirs"
          /\ UNCHANGED dc_outcome
  /\ UNCHANGED <<dc_version, dc_dirname, dc_result, dc_temp_file, dc_calls>>
  /\ UNCHANGED notDc

\* lines 78-79: `if not os.path.isdir(dirname): os.makedirs(dirname)`
ComposeMakeDirs ==
  /\ dc_pc = "makedirs"
  /\ IF dc_dirname = "present"
     THEN /\ dc_pc' = "urlretrieve"
          /\ UNCHANGED <<dc_dirname, dc_outcome>>
     ELSE \/ /\ dc_dirname' = "present"
             /\ dc_pc' = "urlretrieve"
             /\ UNCHANGED dc_outcome
          \/ /\ ComposeEnds("OSError")
             /\ UNCHANGED dc_dirname
  /\ UNCHANGED <<dc_version, dc_version_tag, dc_result, dc_temp_file,
                 dc_calls>>
  /\ UNCHANGED notDc

\* line 80: urllib.request.urlretrieve(url, temp_file).  The request can
\* fail before the file is opened, or while the file is being written
ComposeUrlRetrieve ==
  /\ dc_pc = "urlretrieve"
  /\ \/ /\ dc_temp_file' = "complete"
        /\ dc_pc' = "chmod"
        /\ UNCHANGED dc_outcome
     \/ /\ ComposeEnds("URLError")
        /\ UNCHANGED dc_temp_file
     \/ /\ ComposeEnds("ContentTooShortError")
        /\ dc_temp_file' = "partial"
  /\ UNCHANGED <<dc_version, dc_version_tag, dc_dirname, dc_result, dc_calls>>
  /\ UNCHANGED notDc

\* line 81: os.chmod(temp_file, 0o755)
ComposeChmod ==
  /\ dc_pc = "chmod"
  /\ dc_temp_file' = "executable"
  /\ dc_pc' = "atomic_mv"
  /\ UNCHANGED <<dc_version, dc_version_tag, dc_dirname, dc_result,
                 dc_outcome, dc_calls>>
  /\ UNCHANGED notDc

\* line 82: atomic_mv(temp_file, result), a `mv` command that can fail
ComposeAtomicMv ==
  /\ dc_pc = "atomic_mv"
  /\ \/ /\ dc_result' = "new"
        /\ dc_temp_file' = "absent"
        /\ ComposeEnds("success")
     \/ /\ ComposeEnds("CalledProcessError")
        /\ UNCHANGED <<dc_result, dc_temp_file>>
  /\ UNCHANGED <<dc_version, dc_version_tag, dc_dirname, dc_calls>>
  /\ UNCHANGED notDc

\* download_docker_compose is called again for the same directory
ComposeCalledAgain ==
  /\ dc_pc = "done"
  /\ dc_calls < MaxComposeCalls
  /\ dc_calls' = dc_calls + 1
  /\ dc_version' \in ComposeVersions
  /\ dc_version_tag' = NoVersion
  /\ dc_pc' = "start"
  /\ dc_outcome' = "none"
  /\ UNCHANGED <<dc_dirname, dc_result, dc_temp_file>>
  /\ UNCHANGED notDc

NextCompose ==
  \/ ComposeResolveVersion
  \/ ComposeMakeDirs
  \/ ComposeUrlRetrieve
  \/ ComposeChmod
  \/ ComposeAtomicMv
  \/ ComposeCalledAgain

\* C18: when an install attempt ends, whether it succeeded or failed at any
\* step, its staging location no longer exists; only the final artifact
\* survives, by having been moved into place.
C18_StagingGoneWhenAttemptEnds ==
  dc_pc = "done" =>
    /\ dc_temp_file = "absent"
    /\ dc_outcome = "success" => dc_result = "new"

\* C18 witness: the first download_docker_compose failed in its `mv` and
\* left the fetched file at <dest>.tmp.
C18_Witness ==
  /\ dc_calls = 1
  /\ dc_pc = "done"
  /\ dc_outcome = "CalledProcessError"
  /\ dc_temp_file = "executable"

\* What holds in place of C18: the staged file is gone after a
\* download_docker_compose that succeeded, having been moved onto <dest>,
\* and after one that failed before urlretrieve opened the file, unless an
\* earlier call left one.
C18_StagingGoneAfterSuccess ==
  /\ (dc_pc = "done" /\ dc_outcome = "success") =>
       (dc_temp_file = "absent" /\ dc_result = "new")
  /\ (dc_pc = "done" /\ dc_calls = 1 /\ dc_outcome \in {"URLError", "OSError"})
       => dc_temp_file = "absent"

\* What holds in place of C18 for download_pulumi: <dir>/install.tmp is gone
\* when a download_pulumi in which no step failed ends.
C18_PulumiStagingGone ==
  (dl_pc = "done" /\ injected = 0) => tmp_install_dir = "absent"

\* a partly written <dest>.tmp is left by a transfer that broke off
C18_PartialLeft ==
  /\ dc_pc = "done"
  /\ dc_outcome = "ContentTooShortError"
  /\ dc_temp_file = "partial"

(***************************************************************************)
(* check_version_ge on version strings.  A version string is the sequence  *)
(* of its dot-separated segments, a segment the sequence of its decimal    *)
(* digits: "2.4.23" is <<<<2>>, <<4>>, <<2, 3>>>>.                         *)
(***************************************************************************)
\* "2.4.23", "2.4.9", "2.4.09", "2.4", "2.4.0", "2.10", "2.9", "9",
\* "10.0.0", "1.6.0", "1.10.2" and "20.0.0"
VersionStrings ==
  {<<<<2>>, <<4>>, <<2, 3>>>>,
   <<<<2>>, <<4>>, <<9>>>>,
   <<<<2>>, <<4>>, <<0, 9>>>>,
   <<<<2>>, <<4>>>>,
   <<<<2>>, <<4>>, <<0>>>>,
   <<<<2>>, <<1, 0>>>>,
   <<<<2>>, <<9>>>>,
   <<<<9>>>>,
   <<<<1, 0>>, <<0>>, <<0>>>>,
   <<<<1>>, <<6>>, <<0>>>>,
   <<<<1>>, <<1, 0>>, <<2>>>>,
   <<<<2, 0>>, <<0>>, <<0>>>>}

\* int(digits)
RECURSIVE int(_)
int(digits) ==
  IF digits = <<>> THEN 0
  ELSE 10 * int(SubSeq(digits, 1, Len(digits) - 1)) + digits[Len(digits)]

\* a variant of version_parse whose segments order as strings: a segment
\* counts as its first digit, then its second
version_parse_as_text(string) ==
  Ver([i \in DOMAIN string |->
         10 * string[i][1]
           + (IF Len(string[i]) > 1 THEN string[i][2] ELSE 0)])

\* packaging's version.parse on a dotted string of numbers: the release is
\* the tuple of the segments as integers
version_parse(string) ==
  Ver([i \in DOMAIN string |-> int(string[i])])

InitVersions ==
  /\ vo_a \in VersionStrings
  /\ vo_b \in VersionStrings
  /\ vo_c \in VersionStrings
  /\ vo_ge = <<>>
  /\ vo_pc = "start"

\* check_version_ge is called on each pair of a, b and c
CompareVersions ==
  /\ vo_pc = "start"
  /\ LET a == version_parse(vo_a)
         b == version_parse(vo_b)
         c == version_parse(vo_c)
     IN  vo_ge' = [ab |-> check_version_ge(a, b),
                   ba |-> check_version_ge(b, a),
                   bc |-> check_version_ge(b, c),
                   cb |-> check_version_ge(c, b),
                   ac |-> check_version_ge(a, c),
                   ca |-> check_version_ge(c, a)]
  /\ vo_pc' = "done"
  /\ UNCHANGED <<vo_a, vo_b, vo_c>>
  /\ UNCHANGED notVo

NextVersions == CompareVersions

\* 10 to the power n
RECURSIVE TenTo(_)
TenTo(n) == IF n = 0 THEN 1 ELSE 10 * TenTo(n - 1)

\* the number a segment denotes, digit by digit
RECURSIVE SegmentNumber(_, _)
SegmentNumber(digits, i) ==
  IF i > Len(digits) THEN 0
  ELSE digits[i] * TenTo(Len(digits) - i) + SegmentNumber(digits, i + 1)

\* segment i of a version string as a number, a missing one being zero
NumberAt(string, i) ==
  IF i <= Len(string) THEN SegmentNumber(string[i], 1) ELSE 0

\* x is below y when the segments are compared as numbers, left to right
NumericallyBelow(x, y) ==
  \E i \in 1..(Len(x) + Len(y)) :
    /\ \A j \in 1..(i - 1) : NumberAt(x, j) = NumberAt(y, j)
    /\ NumberAt(x, i) < NumberAt(y, i)

\* C20: for all version strings a, b and c, ge(a,b) or ge(b,a) holds,
\* ge(a,b) and ge(b,c) imply ge(a,c), and ge compares the segments as
\* numbers, not as strings: ge('2.4.23', '2.4.9') is true.
C20_TotalNumericOrder ==
  vo_pc = "done" =>
    /\ vo_ge.ab \/ vo_ge.ba
    /\ vo_ge.bc \/ vo_ge.cb
    /\ vo_ge.ac \/ vo_ge.ca
    /\ (vo_ge.ab /\ vo_ge.bc) => vo_ge.ac
    /\ (vo_ge.cb /\ vo_ge.ba) => vo_ge.ca
    /\ vo_ge.ab <=> ~NumericallyBelow(vo_a, vo_b)
    /\ vo_ge.bc <=> ~NumericallyBelow(vo_b, vo_c)
    /\ vo_ge.ca <=> ~NumericallyBelow(vo_c, vo_a)

\* C20 witness: '2.4.23' >= '2.4.9' >= '2.4' were compared, and neither of
\* the first two comparisons holds the other way round.
C20_Witness ==
  /\ vo_pc = "done"
  /\ vo_a = <<<<2>>, <<4>>, <<2, 3>>>>
  /\ vo_b = <<<<2>>, <<4>>, <<9>>>>
  /\ vo_c = <<<<2>>, <<4>>>>
  /\ vo_ge.ab /\ vo_ge.bc /\ vo_ge.ac
  /\ ~vo_ge.ba /\ ~vo_ge.cb /\ ~vo_ge.ca

\* "2.4" and "2.4.0" are different strings and each is >= the other
C20_EqualVersions ==
  /\ vo_pc = "done"
  /\ vo_a = <<<<2>>, <<4>>>>
  /\ vo_b = <<<<2>>, <<4>>, <<0>>>>
  /\ vo_ge.ab /\ vo_ge.ba

(***************************************************************************)
(* Specifications.  Each one runs one part of the program from its initial *)
(* states and holds the variables of the other parts at a fixed value.     *)
(***************************************************************************)
(***************************************************************************)
(* os_group_add_user (os_packages.py), os_group_includes_user (util.py).   *)
(***************************************************************************)
\* the OS users, and the OS groups of grp.getgrall(): each user has a group
\* of their own name
OsUsers == {CurrentUser, "bob"}
OsGroups == {Group} \cup OsUsers

\* the two copies of os_packages.py in the repository
Copies == {"project_init_tools", "src/project_init_tools"}

\* get_os_groups_of_user(user): the groups whose gr_mem lists the user, the
\* current user when user is None
get_os_groups_of_user(mem, user) ==
  LET u == IF user = None THEN CurrentUser ELSE user
  IN  {g \in DOMAIN mem : u \in mem[g]}

\* os_group_includes_user(group_name, user=None)
os_group_includes_user(mem, group_name, user) ==
  group_name \in get_os_groups_of_user(mem, user)

\* the membership test os_group_add_user makes: src/project_init_tools
\* passes group_name and user, project_init_tools passes user alone, as the
\* group name
os_group_add_user_test(copy, mem, group_name, user) ==
  IF copy = "src/project_init_tools"
  THEN os_group_includes_user(mem, group_name, user)
  ELSE os_group_includes_user(mem, user, None)

\* the usermod command of os_group_add_user, run through
\* sudo_check_output_stderr_exception
usermod(group_name, user) ==
  [sudo |-> TRUE, args |-> <<"usermod", "-a", "-G", group_name, user>>]

InitGroups ==
  /\ gr_mem \in [OsGroups -> SUBSET OsUsers]
  /\ gm_op = [kind |-> "none"]
  /\ gm_calls = 0

\* os_group_add_user(group_name, user): user None stands for the current
\* user; usermod can fail, and adds the user to gr_mem when it succeeds
OsGroupAddUser ==
  /\ gm_calls < MaxGroupCalls
  /\ gm_calls' = gm_calls + 1
  /\ \E copy \in Copies, group_name \in OsGroups,
        given \in OsUsers \cup {None}, ok \in BOOLEAN :
       LET user == IF given = None THEN CurrentUser ELSE given
           included == os_group_add_user_test(copy, gr_mem, group_name, user)
           op == [kind |-> "os_group_add_user", copy |-> copy,
                  group_name |-> group_name, user |-> user,
                  mem_before |-> gr_mem,
                  issued |-> IF included THEN <<>>
                             ELSE <<usermod(group_name, user)>>,
                  raised |-> ~included /\ ~ok]
       IN  /\ included => ok
           /\ gm_op' = op
           /\ gr_mem' = IF ~included /\ ok
                        THEN [gr_mem EXCEPT ![group_name] = @ \cup {user}]
                        ELSE gr_mem
  /\ UNCHANGED notGm

NextGroups == OsGroupAddUser

\* the last call was os_group_add_user
GroupAddUserCalled == gm_op.kind = "os_group_add_user"

\* the user of the last call was in the group of the last call before it
WasMember == gm_op.user \in gm_op.mem_before[gm_op.group_name]

\* C26: os_group_add_user(group, user) does nothing when the user is already
\* a member of the named group, and otherwise runs
\* usermod -a -G <group> <user> with sudo; the membership test is made
\* against the given group and the given user.
C26_AddsOnlyNonMembers ==
  GroupAddUserCalled =>
    /\ WasMember => gm_op.issued = <<>>
    /\ ~WasMember =>
         gm_op.issued = <<usermod(gm_op.group_name, gm_op.user)>>

\* C26 witness: bob was not in the docker group, the copy under
\* project_init_tools tested whether the current user is in the group named
\* bob, found it so, and ran no usermod.
C26_Witness ==
  /\ GroupAddUserCalled
  /\ gm_op.copy = "project_init_tools"
  /\ gm_op.group_name = Group
  /\ gm_op.user = "bob"
  /\ ~WasMember
  /\ CurrentUser \in gm_op.mem_before["bob"]
  /\ gm_op.issued = <<>>
  /\ "bob" \notin gr_mem[Group]

\* the copy under src/project_init_tools tests the given group and user
C26_SrcCopyAddsOnlyNonMembers ==
  (GroupAddUserCalled /\ gm_op.copy = "src/project_init_tools") =>
    /\ WasMember <=> gm_op.issued = <<>>
    /\ ~WasMember =>
         gm_op.issued = <<usermod(gm_op.group_name, gm_op.user)>>

\* the copy under project_init_tools ran usermod for a user who was already a
\* member of the group
C26_MemberAddedAgain ==
  /\ GroupAddUserCalled
  /\ gm_op.copy = "project_init_tools"
  /\ WasMember
  /\ gm_op.issued # <<>>

(***************************************************************************)
(* append_lines_to_file_if_missing (util.py).  Text is a sequence of       *)
(* characters.                                                             *)
(***************************************************************************)
NL == "\n"

\* a file that does not exist
NoFile == [exists |-> FALSE, content |-> <<>>]

\* the lines callers give: with and without a line end
GivenLines == {<<"a">>, <<"a", NL>>, <<"b">>}

\* the files at the start: none, or up to MaxFileLines lines, the last one
\* with or without its line end
RECURSIVE Joined(_)
Joined(ls) == IF ls = <<>> THEN <<>> ELSE Head(ls) \o Joined(Tail(ls))

StartFiles ==
  {NoFile} \cup
  {[exists |-> TRUE, content |-> Joined(ls)] :
     ls \in SeqsUpTo({<<"a", NL>>, <<"b", NL>>, <<"c", NL>>}, MaxFileLines)}
  \cup
  {[exists |-> TRUE, content |-> Joined(ls) \o last] :
     ls \in SeqsUpTo({<<"a", NL>>, <<"b", NL>>}, MaxFileLines - 1),
     last \in {<<"a">>, <<"b">>}}

\* the `lines` arguments: one str, or a list of str
LinesArguments ==
  {[is_list |-> FALSE, value |-> <<x>>] : x \in GivenLines} \cup
  {[is_list |-> TRUE, value |-> ls] : ls \in SeqsUpTo(GivenLines, MaxGivenLines)}

\* x.rstrip("\n\r")
RECURSIVE rstrip_newlines(_)
rstrip_newlines(x) ==
  IF x = <<>> THEN <<>>
  ELSE IF x[Len(x)] \in {NL, "\r"}
    THEN rstrip_newlines(SubSeq(x, 1, Len(x) - 1))
    ELSE x

\* `for line in f`: the lines of the content, each with its line end, the
\* last one without when the content does not end with one
RECURSIVE file_lines(_)
file_lines(content) ==
  IF content = <<>> THEN <<>>
  ELSE LET ends == {i \in DOMAIN content : content[i] = NL}
           k == IF ends = {} THEN Len(content)
                ELSE CHOOSE i \in ends : \A j \in ends : i <= j
       IN  <<SubSeq(content, 1, k)>>
             \o file_lines(SubSeq(content, k + 1, Len(content)))

\* `adjusted = [x.rstrip("\n\r") for x in lines]`
adjusted_lines(lines) == [i \in DOMAIN lines |-> rstrip_newlines(lines[i])]

\* the keys of `found` that the read loop sets to True
found_in(content, adjusted) ==
  {rstrip_newlines(file_lines(content)[i]) : i \in DOMAIN file_lines(content)}
    \cap Elements(adjusted)

\* ends_with_newline after the read loop
ends_with_newline_of(content) ==
  content = <<>> \/ content[Len(content)] = NL

\* the write loop `for line in adjusted: if not found[line]: ...`: the
\* strings it gives f.write, one entry per line written; found is not
\* changed by it
RECURSIVE write_missing(_, _, _)
write_missing(adjusted, found, ends_with_newline) ==
  IF adjusted = <<>> THEN <<>>
  ELSE IF Head(adjusted) \in found
    THEN write_missing(Tail(adjusted), found, ends_with_newline)
    ELSE <<IF ends_with_newline THEN Head(adjusted) \o <<NL>>
           ELSE <<NL>> \o Head(adjusted) \o <<NL>>>>
           \o write_missing(Tail(adjusted), found, TRUE)

\* append_lines_to_file_if_missing(pathname, lines, create_file): the file
\* after it, what it wrote, its result, and whether open() raised
append_lines_to_file_if_missing(file, lines_arg, create_file) ==
  LET lines == lines_arg.value
      created == create_file /\ ~file.exists
      file1 == IF created THEN [exists |-> TRUE, content |-> <<>>] ELSE file
      adjusted == adjusted_lines(lines)
      found == found_in(file1.content, adjusted)
      written == write_missing(adjusted, found,
                               ends_with_newline_of(file1.content))
  IN  IF Len(lines) = 0
      THEN [file |-> file1, written |-> <<>>, result |-> created,
            raised |-> FALSE]
      ELSE IF ~file1.exists
      THEN [file |-> file1, written |-> <<>>, result |-> FALSE,
            raised |-> TRUE]
      ELSE [file |-> [file1 EXCEPT !.content = @ \o Joined(written)],
            written |-> written,
            result |-> created \/ written # <<>>,
            raised |-> FALSE]

InitAppend ==
  /\ af_file \in StartFiles
  /\ af_op = [kind |-> "none"]
  /\ af_calls = 0

AppendLinesToFileIfMissing ==
  /\ af_calls < MaxAppendCalls
  /\ af_calls' = af_calls + 1
  /\ \E lines_arg \in LinesArguments, create_file \in BOOLEAN :
       LET r == append_lines_to_file_if_missing(af_file, lines_arg,
                                                create_file)
       IN  /\ af_file' = r.file
           /\ af_op' = [kind |-> "append_lines_to_file_if_missing",
                        adjusted |-> adjusted_lines(lines_arg.value),
                        create_file |-> create_file,
                        before |-> af_file,
                        written |-> r.written,
                        result |-> r.result,
                        raised |-> r.raised]
  /\ UNCHANGED notAf

NextAppend == AppendLinesToFileIfMissing

\* the last call was append_lines_to_file_if_missing and it returned
AppendReturned ==
  af_op.kind = "append_lines_to_file_if_missing" /\ ~af_op.raised

\* the lines of a content, without their line ends
BareLines(content) ==
  [i \in DOMAIN file_lines(content) |-> rstrip_newlines(file_lines(content)[i])]

\* the lines the last call found in the file, and those it added
PresentBefore == Elements(BareLines(af_op.before.content))
AddedLines ==
  SubSeq(BareLines(af_file.content),
         Len(BareLines(af_op.before.content)) + 1,
         Len(BareLines(af_file.content)))

\* the positions of the given list whose line was not in the file
MissingAt ==
  {i \in DOMAIN af_op.adjusted : af_op.adjusted[i] \notin PresentBefore}

\* the file was created by the last call
FileCreated == ~af_op.before.exists /\ af_file.exists

\* lines already present are not written again
PresentNotWritten == Elements(AddedLines) \cap PresentBefore = {}

\* the added lines are the missing lines of the list, in list order
AddedInListOrder ==
  /\ Elements(AddedLines) = {af_op.adjusted[i] : i \in MissingAt}
  /\ \A i, j \in DOMAIN AddedLines :
       i < j => \E m, n \in MissingAt :
                  /\ m <= n
                  /\ af_op.adjusted[m] = AddedLines[i]
                  /\ af_op.adjusted[n] = AddedLines[j]

\* every added line is written once
AddedOnce ==
  \A i, j \in DOMAIN AddedLines : AddedLines[i] = AddedLines[j] => i = j

\* a call on an existing file whose lines are all present leaves the file
\* as it was and returns False
AllPresentIsNoOp ==
  (af_op.before.exists /\ MissingAt = {}) =>
    af_file = af_op.before /\ af_op.result = FALSE

\* the result is True iff the file was created or a line was added
ResultIffChanged ==
  af_op.result <=> (FileCreated \/ Len(AddedLines) > 0)

\* C27: append_lines_to_file_if_missing adds each given line only if the
\* file does not already contain it: lines already present are not written
\* again, every added line is written once and in list order, a call whose
\* lines are all present leaves the file unchanged and returns False, and
\* the result is True iff the file was created or a line was added.
C27_EachLineOnlyIfMissing ==
  AppendReturned =>
    /\ PresentNotWritten
    /\ AddedInListOrder
    /\ AddedOnce
    /\ AllPresentIsNoOp
    /\ ResultIffChanged

\* C27 witness: a line given twice and missing from the file was written
\* twice.
C27_Witness ==
  /\ AppendReturned
  /\ af_op.adjusted = <<<<"a">>, <<"a">>>>
  /\ af_op.before.exists
  /\ <<"a">> \notin PresentBefore
  /\ AddedLines = <<<<"a">>, <<"a">>>>

\* the given list names no line twice
DistinctGiven ==
  \A i, j \in DOMAIN af_op.adjusted :
    af_op.adjusted[i] = af_op.adjusted[j] => i = j

\* all of C27 holds for lists that name no line twice, and all but the
\* written-once part for every list
C27_DistinctLinesOnlyIfMissing ==
  AppendReturned =>
    /\ PresentNotWritten
    /\ AddedInListOrder
    /\ DistinctGiven => AddedOnce
    /\ AllPresentIsNoOp
    /\ ResultIffChanged

\* a second call with the lines the first one added changes nothing
C27_SecondCallIsNoOp ==
  /\ af_calls = 2
  /\ AppendReturned
  /\ af_op.adjusted # <<>>
  /\ af_op.before.content # <<>>
  /\ MissingAt = {}
  /\ af_file = af_op.before
  /\ ~af_op.result

ParkedDownload ==
  /\ bin_dir = "absent"
  /\ backup_bin_dir = "absent"
  /\ tmp_install_dir = "absent"
  /\ tmp_bin_dir = "absent"
  /\ tarball_layout = "none"
  /\ success = FALSE
  /\ dl_pc = "parked"
  /\ dl_raised = FALSE
  /\ pre_bin = "absent"
  /\ injected = 0
  /\ commit_failed = FALSE
  /\ restore_failed = FALSE
  /\ commit_entered = FALSE
  /\ dl_warnings = <<>>
  /\ pre_backup = "absent"

ParkedRunOnce ==
  /\ has_run = FALSE
  /\ result = None
  /\ lock = NoThread
  /\ ro_pc = [t \in Threads |-> "parked"]
  /\ ro_arg = [t \in Threads |-> None]
  /\ ro_val = [t \in Threads |-> None]
  /\ ro_ret = [t \in Threads |-> Pending]
  /\ ro_calls = [t \in Threads |-> 0]
  /\ executions = 0
  /\ raises = 0
  /\ produced = <<>>
  /\ concurrent_start = FALSE

ParkedRunner ==
  /\ is_root = FALSE
  /\ group_exists = FALSE
  /\ user_in_group = FALSE
  /\ proc_in_group = FALSE
  /\ sw_has_run = FALSE
  /\ sw_out = <<>>
  /\ cr_pc = "parked"
  /\ cr_count = 0
  /\ cr_call = NoCall
  /\ cr_args = <<>>
  /\ cr_proc = NoProcess
  /\ cr_outcome = NoOutcome
  /\ elevations = 0
  /\ first_elevated = NoCall

ParkedInstall ==
  /\ tool = "none"
  /\ force = FALSE
  /\ min_version = NoVersion
  /\ upgrade_version = NoVersion
  /\ is_installed = FALSE
  /\ old_version = NoVersion
  /\ latest_version = NoVersion
  /\ pkg_outdated = FALSE
  /\ in_pc = "parked"
  /\ decision = NoDecision
  /\ in_result = "none"
  /\ committed = FALSE
  /\ post_installed = FALSE
  /\ post_version = NoVersion
  /\ reprobed = FALSE
  /\ ce_attempts = <<>>

ParkedPackages ==
  /\ package_names = <<>>
  /\ package_name_set = {}
  /\ requested = <<>>
  /\ os_installed = {}
  /\ os_outdated = {}
  /\ metadata_stale = TRUE
  /\ pk_op = NoOperation
  /\ pk_ops = 0

ParkedFetch ==
  /\ platform_system = "Linux"
  /\ platform_machine = "x86_64"
  /\ fe_min_version = NoVersion
  /\ fe_upgrade_version = NoVersion
  /\ fe_force = FALSE
  /\ fe_old_version = NoVersion
  /\ fe_latest = NoVersion
  /\ fe_has_run = FALSE
  /\ fe_pc = "parked"
  /\ fe_events = <<>>
  /\ fe_result = "none"

ParkedAws ==
  /\ aw_tool = "none"
  /\ aw_force = FALSE
  /\ aw_output = NotInPath
  /\ aw_version = NoVersion
  /\ aw_final = "absent"
  /\ aw_link = "absent"
  /\ aw_pre_final = "absent"
  /\ aw_pre_link = "absent"
  /\ aw_tdir = "absent"
  /\ aw_pc = "parked"
  /\ aw_started = FALSE
  /\ aw_commit_entered = FALSE
  /\ aw_result = "none"

ParkedCompose ==
  /\ dc_version = NoVersion
  /\ dc_version_tag = NoVersion
  /\ dc_dirname = "absent"
  /\ dc_result = "absent"
  /\ dc_temp_file = "absent"
  /\ dc_pc = "parked"
  /\ dc_outcome = "none"
  /\ dc_calls = 0

ParkedVersions ==
  /\ vo_a = <<>>
  /\ vo_b = <<>>
  /\ vo_c = <<>>
  /\ vo_ge = <<>>
  /\ vo_pc = "parked"

ParkedSources ==
  /\ sources_file = "absent"
  /\ keyring_file = "absent"

ParkedGroups ==
  /\ gr_mem = [g \in {} |-> {}]
  /\ gm_op = [kind |-> "none"]
  /\ gm_calls = 0

ParkedAppend ==
  /\ af_file = [exists |-> FALSE, content |-> <<>>]
  /\ af_op = [kind |-> "none"]
  /\ af_calls = 0

ParkedTail ==
  /\ in_calls = 1
  /\ docker_member = FALSE
  /\ docker_process = FALSE
  /\ qemu_ready = FALSE
  /\ fin_commands = <<>>

InitSpecDownload ==
  /\ InitDownload
  /\ ParkedRunOnce /\ ParkedRunner /\ ParkedInstall /\ ParkedPackages
  /\ ParkedFetch
  /\ ParkedAws
  /\ ParkedCompose
  /\ ParkedVersions
  /\ ParkedSources
  /\ ParkedGroups
  /\ ParkedAppend
  /\ ParkedTail

SpecDownload ==
  /\ InitSpecDownload
  /\ [][NextDownload]_vars

InitSpecRunOnce ==
  /\ InitRunOnce
  /\ ParkedDownload /\ ParkedRunner /\ ParkedInstall /\ ParkedPackages
  /\ ParkedFetch
  /\ ParkedAws
  /\ ParkedCompose
  /\ ParkedVersions
  /\ ParkedSources
  /\ ParkedGroups
  /\ ParkedAppend
  /\ ParkedTail

SpecRunOnce ==
  /\ InitSpecRunOnce
  /\ [][NextRunOnce]_vars

InitSpecRunner ==
  /\ InitRunner
  /\ ParkedDownload /\ ParkedRunOnce /\ ParkedInstall /\ ParkedPackages
  /\ ParkedFetch
  /\ ParkedAws
  /\ ParkedCompose
  /\ ParkedVersions
  /\ ParkedSources
  /\ ParkedGroups
  /\ ParkedAppend
  /\ ParkedTail

SpecRunner ==
  /\ InitSpecRunner
  /\ [][NextRunner]_vars

InitSpecInstall ==
  /\ InitInstall
  /\ InitTail
  /\ ParkedDownload /\ ParkedRunOnce /\ ParkedRunner /\ ParkedPackages
  /\ ParkedFetch
  /\ ParkedAws
  /\ ParkedCompose
  /\ ParkedVersions
  /\ ParkedSources
  /\ ParkedGroups
  /\ ParkedAppend

SpecInstall ==
  /\ InitSpecInstall
  /\ [][NextInstall]_vars

InitSpecPackages ==
  /\ InitPackages
  /\ ParkedDownload /\ ParkedRunOnce /\ ParkedRunner /\ ParkedInstall
  /\ ParkedFetch
  /\ ParkedAws
  /\ ParkedCompose
  /\ ParkedVersions
  /\ ParkedSources
  /\ ParkedGroups
  /\ ParkedAppend
  /\ ParkedTail

SpecPackages ==
  /\ InitSpecPackages
  /\ [][NextPackages]_vars

InitSpecFetch ==
  /\ InitFetch
  /\ ParkedDownload /\ ParkedRunOnce /\ ParkedRunner /\ ParkedInstall
  /\ ParkedPackages
  /\ ParkedAws
  /\ ParkedCompose
  /\ ParkedVersions
  /\ ParkedSources
  /\ ParkedGroups
  /\ ParkedAppend
  /\ ParkedTail

SpecFetch ==
  /\ InitSpecFetch
  /\ [][NextFetch]_vars

InitSpecAws ==
  /\ InitAws
  /\ ParkedDownload /\ ParkedRunOnce /\ ParkedRunner /\ ParkedInstall
  /\ ParkedPackages /\ ParkedFetch
  /\ ParkedCompose
  /\ ParkedVersions
  /\ ParkedSources
  /\ ParkedGroups
  /\ ParkedAppend
  /\ ParkedTail

SpecAws ==
  /\ InitSpecAws
  /\ [][NextAws]_vars

InitSpecCompose ==
  /\ InitCompose
  /\ ParkedDownload /\ ParkedRunOnce /\ ParkedRunner /\ ParkedInstall
  /\ ParkedPackages /\ ParkedFetch /\ ParkedAws
  /\ ParkedVersions
  /\ ParkedSources
  /\ ParkedGroups
  /\ ParkedAppend
  /\ ParkedTail

SpecCompose ==
  /\ InitSpecCompose
  /\ [][NextCompose]_vars

InitSpecVersions ==
  /\ InitVersions
  /\ ParkedDownload /\ ParkedRunOnce /\ ParkedRunner /\ ParkedInstall
  /\ ParkedPackages /\ ParkedFetch /\ ParkedAws /\ ParkedCompose
  /\ ParkedSources
  /\ ParkedGroups
  /\ ParkedAppend
  /\ ParkedTail

SpecVersions ==
  /\ InitSpecVersions
  /\ [][NextVersions]_vars

InitSpecSources ==
  /\ InitSources
  /\ ParkedDownload /\ ParkedRunOnce /\ ParkedRunner /\ ParkedInstall
  /\ ParkedPackages /\ ParkedFetch /\ ParkedAws /\ ParkedCompose
  /\ ParkedVersions
  /\ ParkedGroups
  /\ ParkedAppend
  /\ ParkedTail

SpecSources ==
  /\ InitSpecSources
  /\ [][NextSources]_vars

InitSpecGroups ==
  /\ InitGroups
  /\ ParkedDownload /\ ParkedRunOnce /\ ParkedRunner /\ ParkedInstall
  /\ ParkedPackages /\ ParkedFetch /\ ParkedAws /\ ParkedCompose
  /\ ParkedVersions /\ ParkedSources
  /\ ParkedAppend
  /\ ParkedTail

SpecGroups ==
  /\ InitSpecGroups
  /\ [][NextGroups]_vars

InitSpecAppend ==
  /\ InitAppend
  /\ ParkedDownload /\ ParkedRunOnce /\ ParkedRunner /\ ParkedInstall
  /\ ParkedPackages /\ ParkedFetch /\ ParkedAws /\ ParkedCompose
  /\ ParkedVersions /\ ParkedSources /\ ParkedGroups
  /\ ParkedTail

SpecAppend ==
  /\ InitSpecAppend
  /\ [][NextAppend]_vars

====
